---- MODULE Spec2Model ----
(***************************************************************************)
(* Model of the AttendanceReader repository: the token-to-table            *)
(* reconstruction pipelines of attendance_reader.py (adaptive columns),    *)
(* malam_saar_attendance.py (fixed-range columns) and                      *)
(* attendance_reader_docai.py (Document AI variant).                       *)
(*                                                                         *)
(* Conventions.  A text is a sequence of characters, each character a      *)
(* one-element string; Hebrew letters are written by their names ("alef",  *)
(* "shin", ...).  Horizontal and vertical positions are integers (points). *)
(* An x-center (x0 + x1) / 2 is kept doubled, as x0 + x1, so that it stays *)
(* an integer; every comparison on centers is scaled accordingly.          *)
(***************************************************************************)
EXTENDS Integers, Sequences, FiniteSets, TLC

VARIABLES
    \* attendance_reader._process_page: the block-splitting loop
    sorted_rows, row_i, blocks, current_block, seg_pc,
    \* malam_saar_attendance._reconstruct_date: arguments and returned value
    dd, mm, salary_month_str, full_date, date_pc,
    \* malam_saar_attendance._parse_data_rows: arguments, the sorted bucket
    \* keys, the loop position and the records built so far
    rows_words, rows_config, rows_salary_month, rows_page_num, rows_keys,
    bucket_i, rows_records, rows_pc,
    \* malam_saar_attendance.process_pdf: the pages read so far, the number of
    \* the last one, the carried header fields, the records, the page each
    \* record came from, and where the call is
    pdf_pages, page_num, current_employee, all_records, record_page, pdf_pc,
    \* Row grouping: the words given, the loop position and the buckets of
    \* attendance_reader._group_rows, its returned rows, and the rows
    \* malam_saar_attendance._group_by_y returns for the same words
    grp_words, grp_i, buckets, grouped_rows, grid_rows, grp_pc,
    \* attendance_reader._process_block: its argument, the position of the
    \* classification loop, the rows of the roles, the date columns, the
    \* tolerance, the lookups, the position of the binding loop, the records
    block_rows, blk_i, date_row_words, day_row_words, entry_row_words,
    exit_row_words, total_row_words, day_type_row_words, date_cols, tolerance,
    day_lookup, entry_lookup, exit_lookup, total_lookup, day_type_lookup,
    col_i, block_records, blk_pc,
    \* attendance_reader.extract_attendance_data: the pages read so far, the
    \* records collected, and where the function is
    rd_pages, rd_records, rd_pc,
    \* The normalizers: a token, and what normalize_hebrew_word and
    \* fix_hebrew_text give for it when applied once and twice
    nz_token, nz_word_out, nz_text_out,
    \* The desktop applications: which one runs, whether its convert / export
    \* button is enabled, the worker threads started so far, the after(0, ...)
    \* callbacks waiting in Tk's queue, the callbacks the foreground loop has
    \* run, the pending _poll_logs timers, the lines of the log box, and
    \* every message the workers have passed to _log
    app, btn_enabled, workers, tk_events, delivered, poll_timers, log_box, logged,
    \* malam_saar_attendance._log_messages
    log_messages

varsPage == <<sorted_rows, row_i, blocks, current_block, seg_pc>>

varsDate == <<dd, mm, salary_month_str, full_date, date_pc>>

varsRows == <<rows_words, rows_config, rows_salary_month, rows_page_num,
              rows_keys, bucket_i, rows_records, rows_pc>>

varsPdf == <<pdf_pages, page_num, current_employee, all_records, record_page,
             pdf_pc>>

varsGroup == <<grp_words, grp_i, buckets, grouped_rows, grid_rows, grp_pc>>

varsBlock ==
    <<block_rows, blk_i, date_row_words, day_row_words, entry_row_words,
      exit_row_words, total_row_words, day_type_row_words, date_cols, tolerance,
      day_lookup, entry_lookup, exit_lookup, total_lookup, day_type_lookup,
      col_i, block_records, blk_pc>>

varsReader == <<rd_pages, rd_records, rd_pc>>

varsNorm == <<nz_token, nz_word_out, nz_text_out>>

varsApp ==
    <<app, btn_enabled, workers, tk_events, delivered, poll_timers, log_box, logged>>

vars ==
    <<varsPage, varsDate, varsRows, varsPdf, varsGroup, varsBlock, varsReader,
      varsNorm, varsApp, log_messages>>

----------------------------------------------------------------------------
(* Bounds of the model *)

MaxRows == 4

\* Largest day and month number a call of _reconstruct_date is given
MaxDay == 32

MaxMonth == 13

\* Most words on the page a call of _parse_data_rows is given
MaxWords == 3

\* Most pages of the PDF process_pdf reads
MaxPages == 3

\* Most words given to the row groupers, and their largest vertical position
MaxGroupWords == 3

MaxTop == 9

\* Most date columns of a block, and most value words of a role row
MaxCols == 3

MaxTokens == 3

\* Most words of a line of the fixed-range table besides its date and activity
MaxLineTokens == 2

\* Longest token of those given to the normalizers in every combination of
\* characters
MaxTokenLen == 4

\* Most conversions started in one run of an application
MaxExports == 2

\* Most messages one worker passes to _log
MaxLogs == 2

----------------------------------------------------------------------------
(* Texts and the token patterns *)

DigitChars == {"0", "1", "2", "3", "4", "5", "6", "7", "8", "9"}

Digits == <<"0", "1", "2", "3", "4", "5", "6", "7", "8", "9">>

\* The two-character decimal text of n, 0 <= n <= 99
TwoDigits(n) == <<Digits[(n \div 10) + 1], Digits[(n % 10) + 1]>>

\* "DD/MM"
DateText(d, m) == TwoDigits(d) \o <<"/">> \o TwoDigits(m)

\* "HH:MM"
TimeText(hh, mi) == TwoDigits(hh) \o <<":">> \o TwoDigits(mi)

\* DATE_RE = ^\d{2}/\d{2}$
DATE_RE(t) ==
    /\ Len(t) = 5
    /\ t[1] \in DigitChars /\ t[2] \in DigitChars
    /\ t[3] = "/"
    /\ t[4] \in DigitChars /\ t[5] \in DigitChars

\* TIME_RE = ^\d{2}:\d{2}$
TIME_RE(t) ==
    /\ Len(t) = 5
    /\ t[1] \in DigitChars /\ t[2] \in DigitChars
    /\ t[3] = ":"
    /\ t[4] \in DigitChars /\ t[5] \in DigitChars

\* HEBREW_DAYS: day letter -> full day name
HEBREW_DAYS_keys == {<<"alef">>, <<"bet">>, <<"gimel">>, <<"dalet">>,
                     <<"he">>, <<"vav">>, <<"shin">>}

HEBREW_DAYS_get(letter, default) ==
    CASE letter = <<"alef">>  -> <<"resh", "alef", "shin", "vav", "nun">>
      [] letter = <<"bet">>   -> <<"shin", "nun", "yod">>
      [] letter = <<"gimel">> -> <<"shin", "lamed", "yod", "shin", "yod">>
      [] letter = <<"dalet">> -> <<"resh", "bet", "yod", "ayin", "yod">>
      [] letter = <<"he">>    -> <<"het", "mem", "yod", "shin", "yod">>
      [] letter = <<"vav">>   -> <<"shin", "yod", "shin", "yod">>
      [] letter = <<"shin">>  -> <<"shin", "bet", "tav">>
      [] OTHER -> default

\* A pdfplumber word dict
Word(text, x0, x1, top) == [text |-> text, x0 |-> x0, x1 |-> x1, top |-> top]

\* [w["text"] for w in row_words]
Texts(row_words) == [i \in 1..Len(row_words) |-> row_words[i].text]

\* sum(1 for t in texts if pred(t))
CountDates(texts) == Cardinality({i \in 1..Len(texts) : DATE_RE(texts[i])})

\* _is_date_row
IsDateRow(texts) == CountDates(texts) >= 3

----------------------------------------------------------------------------
(* malam_saar_attendance._reconstruct_date *)

\* Python's None where a text is expected: a text no token has ("None" is no
\* character)
None == <<"None">>

\* Python's None where a date is expected
NoDate == [none |-> TRUE]

\* s.split(sep) for a one-character separator: the parts between separators
RECURSIVE SplitFrom(_, _, _, _)
SplitFrom(s, sep, i, part) ==
    IF i > Len(s) THEN <<part>>
    ELSE IF s[i] = sep THEN <<part>> \o SplitFrom(s, sep, i + 1, <<>>)
    ELSE SplitFrom(s, sep, i + 1, Append(part, s[i]))

Split(s, sep) == SplitFrom(s, sep, 1, <<>>)

DigitValue(c) == CHOOSE n \in 0..9 : Digits[n + 1] = c

\* Whether int(s) returns (it raises ValueError on any other text here)
IsInt(s) == Len(s) >= 1 /\ \A i \in 1..Len(s) : s[i] \in DigitChars

\* int(s) for a text of decimal digits
RECURSIVE IntOf(_)
IntOf(s) ==
    IF s = <<>> THEN 0
    ELSE 10 * IntOf(SubSeq(s, 1, Len(s) - 1)) + DigitValue(s[Len(s)])

IsLeap(y) == (y % 4 = 0 /\ y % 100 # 0) \/ y % 400 = 0

DaysInMonth(y, m) ==
    IF m = 2 THEN (IF IsLeap(y) THEN 29 ELSE 28)
    ELSE IF m \in {4, 6, 9, 11} THEN 30 ELSE 31

\* Whether datetime.date(y, m, d) returns (it raises ValueError otherwise)
DateOk(y, m, d) ==
    /\ 1 <= y /\ y <= 9999
    /\ 1 <= m /\ m <= 12
    /\ 1 <= d /\ d <= DaysInMonth(y, m)

\* datetime.date(y, m, d)
Date(y, m, d) == [year |-> y, month |-> m, day |-> d]

\* _reconstruct_date with `mm < salary_mm` for `mm <= salary_mm`
ReconstructDate_StrictLess(d, m, s) ==
    LET parts == Split(s, "/")
    IN  IF Len(parts) < 3 \/ ~IsInt(parts[3]) \/ ~IsInt(parts[2]) THEN NoDate
        ELSE LET salary_year == IntOf(parts[3])
                 salary_mm == IntOf(parts[2])
                 y == IF m < salary_mm THEN salary_year ELSE salary_year - 1
             IN  IF DateOk(y, m, d) THEN Date(y, m, d) ELSE NoDate

\* _reconstruct_date with the year of the salary month taken in both branches
ReconstructDate_SameYear(d, m, s) ==
    LET parts == Split(s, "/")
    IN  IF Len(parts) < 3 \/ ~IsInt(parts[3]) \/ ~IsInt(parts[2]) THEN NoDate
        ELSE LET salary_year == IntOf(parts[3])
             IN  IF DateOk(salary_year, m, d) THEN Date(salary_year, m, d)
                 ELSE NoDate

\* _reconstruct_date(dd, mm, salary_month_str): parts[2] and parts[1] of the
\* code are parts[3] and parts[2] here (sequences start at 1)
ReconstructDate(d, m, s) ==
    LET parts == Split(s, "/")
    IN  IF Len(parts) < 3 \/ ~IsInt(parts[3]) \/ ~IsInt(parts[2]) THEN NoDate
        ELSE LET salary_year == IntOf(parts[3])
                 salary_mm == IntOf(parts[2])
                 y == IF m <= salary_mm THEN salary_year ELSE salary_year - 1
             IN  IF DateOk(y, m, d) THEN Date(y, m, d) ELSE NoDate

\* "DD/MM/YYYY" as the header pattern captures it
FourDigits(n) == TwoDigits(n \div 100) \o TwoDigits(n % 100)

SalaryMonthText(d, m, y) ==
    TwoDigits(d) \o <<"/">> \o TwoDigits(m) \o <<"/">> \o FourDigits(y)

\* The texts a call is given as salary month: captured header values, the
\* initial value of process_pdf, the MM/YYYY display form, and texts that do
\* not parse
SalaryMonthInputs ==
    { SalaryMonthText(1, 1, 2024), SalaryMonthText(1, 3, 2024),
      SalaryMonthText(1, 1, 2025),
      SalaryMonthText(1, 12, 2023), SalaryMonthText(1, 2, 2025),
      SalaryMonthText(1, 1, 1900), SalaryMonthText(1, 6, 1),
      SalaryMonthText(1, 13, 2024),
      TwoDigits(1) \o <<"/">> \o FourDigits(2024),
      <<>>,
      <<"0", "1", "/", "x", "x", "/", "2", "0", "2", "4">> }

InitDate ==
    /\ dd \in 0..MaxDay
    /\ mm \in 0..MaxMonth
    /\ salary_month_str \in SalaryMonthInputs
    /\ full_date = NoDate
    /\ date_pc = "call"

\* _reconstruct_date not running
IdleDate ==
    /\ dd = 0
    /\ mm = 0
    /\ salary_month_str = <<>>
    /\ full_date = NoDate
    /\ date_pc = "idle"

\* full_date = _reconstruct_date(dd, mm, salary_month)
CallReconstructDate ==
    /\ date_pc = "call"
    /\ full_date' = ReconstructDate(dd, mm, salary_month_str)
    /\ date_pc' = "returned"
    /\ UNCHANGED <<dd, mm, salary_month_str>>
    /\ UNCHANGED <<varsPage, varsRows, varsPdf, varsGroup, varsBlock, varsReader, varsNorm, varsApp,
                   log_messages>>

NextDate == CallReconstructDate

\* The year and month a salary-month text names, when it has three parts
C6_Resolved == Len(Split(salary_month_str, "/")) = 3
               /\ IsInt(Split(salary_month_str, "/")[2])
               /\ IsInt(Split(salary_month_str, "/")[3])

C6_SalaryMonth == IntOf(Split(salary_month_str, "/")[2])

C6_SalaryYear == IntOf(Split(salary_month_str, "/")[3])

C6_Year == IF mm <= C6_SalaryMonth THEN C6_SalaryYear ELSE C6_SalaryYear - 1

C6_ValidDay ==
    /\ C6_Year >= 1
    /\ mm \in 1..12
    /\ dd >= 1
    /\ dd <= (CASE mm = 2 -> IF (C6_Year % 4 = 0 /\ C6_Year % 100 # 0)
                                    \/ C6_Year % 400 = 0 THEN 29 ELSE 28
                [] mm \in {4, 6, 9, 11} -> 30
                [] OTHER -> 31)

\* C6: for a day and month that are a valid calendar day and a salary month
\* that resolves, the date returned is (salaryYear, mm, dd) when
\* mm <= salaryMonth and (salaryYear - 1, mm, dd) otherwise.
C6_DateReconstruction ==
    (date_pc = "returned" /\ C6_Resolved /\ C6_ValidDay) =>
        full_date = [year |-> (IF mm <= C6_SalaryMonth THEN C6_SalaryYear
                               ELSE C6_SalaryYear - 1),
                     month |-> mm, day |-> dd]

\* 29 February with salary month 01/2025 resolves into leap year 2024
C6_Witness ==
    /\ date_pc = "returned"
    /\ dd = 29 /\ mm = 2
    /\ salary_month_str = SalaryMonthText(1, 1, 2025)
    /\ full_date = [year |-> 2024, month |-> 2, day |-> 29]

\* "01/2024": the MM/YYYY form
C7_MonthYearForm == <<"0", "1", "/", "2", "0", "2", "4">>

\* "01/01/2024": the 01/MM/YYYY form
C7_DayMonthYearForm == <<"0", "1", "/", "0", "1", "/", "2", "0", "2", "4">>

\* C7 as stated: day 31, month 12 and salary month "01/2024" (MM/YYYY)
\* resolve to 2023-12-31.
C7_AsStated ==
    (date_pc = "returned" /\ dd = 31 /\ mm = 12
     /\ salary_month_str = C7_MonthYearForm) =>
        full_date = [year |-> 2023, month |-> 12, day |-> 31]

\* C7 amended: day 31, month 12 and salary month "01/01/2024" (the
\* 01/MM/YYYY form _reconstruct_date takes) resolve to 2023-12-31; given the
\* MM/YYYY form "01/2024" the resolver returns no date.
C7_PriorYear ==
    (date_pc = "returned" /\ dd = 31 /\ mm = 12) =>
        /\ salary_month_str = C7_DayMonthYearForm =>
              full_date = [year |-> 2023, month |-> 12, day |-> 31]
        /\ salary_month_str = C7_MonthYearForm => full_date = NoDate

C7_Witness ==
    /\ date_pc = "returned"
    /\ dd = 31 /\ mm = 12
    /\ salary_month_str = C7_DayMonthYearForm
    /\ full_date = [year |-> 2023, month |-> 12, day |-> 31]

----------------------------------------------------------------------------
(* malam_saar_attendance: normalisation, configuration, activity table *)

\* _HEBREW_CHAR_RE = [א-ת]: the 22 letters and the 5 final forms
HebrewChars ==
    {"alef", "bet", "gimel", "dalet", "he", "vav", "zayin", "het", "tet",
     "yod", "kaf_f", "kaf", "lamed", "mem_f", "mem", "nun_f", "nun", "samekh",
     "ayin", "pe_f", "pe", "tsadi_f", "tsadi", "qof", "resh", "shin", "tav"}

\* _HEBREW_CHAR_RE.search(word)
HasHebrew(word) == \E i \in 1..Len(word) : word[i] \in HebrewChars

\* word[::-1]
Reverse(word) == [i \in 1..Len(word) |-> word[Len(word) + 1 - i]]

\* normalize_hebrew_word reversing every word
normalize_hebrew_word_Always(word) == Reverse(word)

\* normalize_hebrew_word
normalize_hebrew_word(word) == IF HasHebrew(word) THEN Reverse(word) ELSE word

\* normalize_row_words
normalize_row_words(words) ==
    [i \in 1..Len(words) |->
        [words[i] EXCEPT !.text = normalize_hebrew_word(words[i].text)]]

\* DEFAULT_CONFIG with the ot_100 range widened into the standard_hours range
DEFAULT_CONFIG_WideOt100 ==
    << [col |-> "date",           lo |-> 795, hi |-> 830],
       [col |-> "day_of_week",    lo |-> 782, hi |-> 800],
       [col |-> "shift_marker",   lo |-> 750, hi |-> 765],
       [col |-> "entry_actual",   lo |-> 704, hi |-> 720],
       [col |-> "exit_actual",    lo |-> 677, hi |-> 693],
       [col |-> "total_present",  lo |-> 652, hi |-> 668],
       [col |-> "entry_for_pay",  lo |-> 620, hi |-> 645],
       [col |-> "exit_for_pay",   lo |-> 591, hi |-> 607],
       [col |-> "total_for_pay",  lo |-> 565, hi |-> 581],
       [col |-> "activity",       lo |-> 485, hi |-> 545],
       [col |-> "standard_hours", lo |-> 434, hi |-> 492],
       [col |-> "ot_100",         lo |-> 398, hi |-> 440],
       [col |-> "ot_125",         lo |-> 362, hi |-> 382],
       [col |-> "ot_150",         lo |-> 327, hi |-> 347],
       [col |-> "ot_200",         lo |-> 291, hi |-> 311],
       [col |-> "shift_87",       lo |-> 251, hi |-> 272],
       [col |-> "shift_50",       lo |-> 222, hi |-> 242],
       [col |-> "shift_20",       lo |-> 184, hi |-> 207],
       [col |-> "deduction",      lo |-> 110, hi |-> 135] >>

\* DEFAULT_CONFIG, in the order of the dict
DEFAULT_CONFIG ==
    << [col |-> "date",           lo |-> 795, hi |-> 830],
       [col |-> "day_of_week",    lo |-> 782, hi |-> 800],
       [col |-> "shift_marker",   lo |-> 750, hi |-> 765],
       [col |-> "entry_actual",   lo |-> 704, hi |-> 720],
       [col |-> "exit_actual",    lo |-> 677, hi |-> 693],
       [col |-> "total_present",  lo |-> 652, hi |-> 668],
       [col |-> "entry_for_pay",  lo |-> 620, hi |-> 645],
       [col |-> "exit_for_pay",   lo |-> 591, hi |-> 607],
       [col |-> "total_for_pay",  lo |-> 565, hi |-> 581],
       [col |-> "activity",       lo |-> 485, hi |-> 545],
       [col |-> "standard_hours", lo |-> 434, hi |-> 492],
       [col |-> "ot_100",         lo |-> 398, hi |-> 420],
       [col |-> "ot_125",         lo |-> 362, hi |-> 382],
       [col |-> "ot_150",         lo |-> 327, hi |-> 347],
       [col |-> "ot_200",         lo |-> 291, hi |-> 311],
       [col |-> "shift_87",       lo |-> 251, hi |-> 272],
       [col |-> "shift_50",       lo |-> 222, hi |-> 242],
       [col |-> "shift_20",       lo |-> 184, hi |-> 207],
       [col |-> "deduction",      lo |-> 110, hi |-> 135] >>

\* The keys col_values can hold
ColKeys ==
    {"date", "day_of_week", "shift_premium", "entry_actual", "exit_actual",
     "total_present", "entry_for_pay", "exit_for_pay", "total_for_pay",
     "activity", "standard_hours", "ot_100", "ot_125", "ot_150", "ot_200",
     "shift_87", "shift_50", "shift_20", "deduction"}

\* Hebrew words of the activity table
W_avoda == <<"ayin", "bet", "vav", "dalet", "he">>
W_hufsha == <<"het", "vav", "pe", "shin", "he">>
W_mahala == <<"mem", "het", "lamed", "he">>
W_ein == <<"alef", "yod", "nun_f">>
W_divuah == <<"dalet", "yod", "vav", "vav", "het">>
W_nohehut == <<"nun", "vav", "kaf", "het", "vav", "tav">>
W_lelo == <<"lamed", "lamed", "alef">>
W_teken == <<"tav", "qof", "nun_f">>
W_behira == <<"bet", "het", "yod", "resh", "he">>
W_mahalat == <<"mem", "het", "lamed", "tav">>
W_ben == <<"bet", "nun_f">>
W_zug == <<"zayin", "vav", "gimel">>
W_hore == <<"he", "vav", "resh", "he">>
W_behatzhara == <<"bet", "he", "tsadi", "he", "resh", "he">>
W_hishtalmut == <<"he", "shin", "tav", "lamed", "mem", "vav", "tav">>
W_hag == <<"het", "gimel">>
W_holhamoed == <<"het", "vav", "he", "\"", "mem">>
W_erev == <<"ayin", "'">>

Sp == <<" ">>

\* English category names, as texts
T_Work == <<"W", "o", "r", "k">>
T_Vacation == <<"V", "a", "c", "a", "t", "i", "o", "n">>
T_Sick == <<"S", "i", "c", "k">>
T_NoReport == <<"N", "o", " ", "R", "e", "p", "o", "r", "t">>
T_NoStandard == <<"N", "o", " ", "S", "t", "a", "n", "d", "a", "r", "d">>
T_PersonalDay == <<"P", "e", "r", "s", "o", "n", "a", "l", " ", "D", "a", "y">>
T_SpouseSick == <<"S", "p", "o", "u", "s", "e", " ", "S", "i", "c", "k">>
T_ParentSick == <<"P", "a", "r", "e", "n", "t", " ", "S", "i", "c", "k">>
T_DeclaredSick ==
    <<"D", "e", "c", "l", "a", "r", "e", "d", " ", "S", "i", "c", "k">>
T_Training == <<"T", "r", "a", "i", "n", "i", "n", "g">>
T_Holiday == <<"H", "o", "l", "i", "d", "a", "y">>
T_IntermediateHoliday ==
    <<"I", "n", "t", "e", "r", "m", "e", "d", "i", "a", "t", "e", " ",
      "H", "o", "l", "i", "d", "a", "y">>
T_HolidayEve == <<"H", "o", "l", "i", "d", "a", "y", " ", "E", "v", "e">>

\* ACTIVITY_MAP, as <<key, value>> pairs
ACTIVITY_MAP ==
    { <<W_avoda, T_Work>>,
      <<W_hufsha, T_Vacation>>,
      <<W_mahala, T_Sick>>,
      <<W_ein \o Sp \o W_divuah \o Sp \o W_nohehut, T_NoReport>>,
      <<W_lelo \o Sp \o W_teken \o Sp \o W_avoda, T_NoStandard>>,
      <<W_behira, T_PersonalDay>>,
      <<W_mahalat \o Sp \o W_ben \o Sp \o W_zug, T_SpouseSick>>,
      <<W_mahalat \o Sp \o W_hore, T_ParentSick>>,
      <<W_mahala \o Sp \o W_behatzhara, T_DeclaredSick>>,
      <<W_hishtalmut, T_Training>>,
      <<W_hag, T_Holiday>>,
      <<W_holhamoed, T_IntermediateHoliday>>,
      <<W_erev \o Sp \o W_hag, T_HolidayEve>> }

\* ACTIVITY_MAP.get(raw, ""): a value that is no key dropped
ACTIVITY_MAP_get_DropUnknown(raw) ==
    IF \E p \in ACTIVITY_MAP : p[1] = raw
    THEN (CHOOSE p \in ACTIVITY_MAP : p[1] = raw)[2]
    ELSE <<>>

\* ACTIVITY_MAP.get(raw, raw)
ACTIVITY_MAP_get(raw) ==
    IF \E p \in ACTIVITY_MAP : p[1] = raw
    THEN (CHOOSE p \in ACTIVITY_MAP : p[1] = raw)[2]
    ELSE raw

\* _NULL_ACTIVITIES without its second member
NULL_ACTIVITIES_NoReportOnly ==
    { W_ein \o Sp \o W_divuah \o Sp \o W_nohehut }

\* _NULL_ACTIVITIES
NULL_ACTIVITIES ==
    { W_ein \o Sp \o W_divuah \o Sp \o W_nohehut,
      W_lelo \o Sp \o W_teken \o Sp \o W_avoda }

\* _RE_DATE_TOKEN = ^\d{2}/\d{2}$
RE_DATE_TOKEN(t) == DATE_RE(t)

\* _RE_TIME_TOKEN = ^\d{2}:\d{2}(:\d{2})?$
RE_TIME_TOKEN(t) ==
    /\ Len(t) \in {5, 8}
    /\ t[1] \in DigitChars /\ t[2] \in DigitChars
    /\ t[3] = ":"
    /\ t[4] \in DigitChars /\ t[5] \in DigitChars
    /\ Len(t) = 8 => (t[6] = ":" /\ t[7] \in DigitChars /\ t[8] \in DigitChars)

\* No column: the None _assign_column returns
NoCol == "None"

\* _assign_column(x0, config) returning the last column whose range holds x0
AssignColumn_Last(x0, config) ==
    IF \E i \in 1..Len(config) : config[i].lo <= x0 /\ x0 <= config[i].hi
    THEN config[CHOOSE i \in 1..Len(config) :
                  /\ config[i].lo <= x0 /\ x0 <= config[i].hi
                  /\ \A j \in (i + 1)..Len(config) :
                        ~(config[j].lo <= x0 /\ x0 <= config[j].hi)].col
    ELSE NoCol

\* _assign_column(x0, config), from entry i of the config on
RECURSIVE AssignColumnFrom(_, _, _)
AssignColumnFrom(x0, config, i) ==
    IF i > Len(config) THEN NoCol
    ELSE IF config[i].lo <= x0 /\ x0 <= config[i].hi THEN config[i].col
    ELSE AssignColumnFrom(x0, config, i + 1)

\* _assign_column
AssignColumn(x0, config) == AssignColumnFrom(x0, config, 1)

\* _parse_standard_hours(token)[0] without the test of the first 5 characters
ParseStandardHours_AnyLong(token) ==
    IF Len(token) >= 10 THEN SubSeq(token, 1, 5) ELSE token

\* _parse_standard_hours(token)[0]
ParseStandardHours(token) ==
    IF Len(token) >= 10 /\ RE_TIME_TOKEN(SubSeq(token, 1, 5))
    THEN SubSeq(token, 1, 5)
    ELSE token

----------------------------------------------------------------------------
(* malam_saar_attendance._group_by_y and _parse_data_rows *)

\* Row tolerance of _group_by_y
GroupByYTolerance == 4

\* Python's round(n / d) for integers n and d > 0: to the nearest integer,
\* a half to the even neighbour
PyRound(n, d) ==
    LET q == n \div d
        r == n % d
    IN  IF 2 * r < d THEN q
        ELSE IF 2 * r > d THEN q + 1
        ELSE IF q % 2 = 0 THEN q ELSE q + 1

\* int(round(y / tolerance) * tolerance)
Bucket(y) == PyRound(y, GroupByYTolerance) * GroupByYTolerance

\* The words of `words` whose bucket is b, in their order in `words`
RECURSIVE WordsInBucket(_, _)
WordsInBucket(words, b) ==
    IF words = <<>> THEN <<>>
    ELSE (IF Bucket(Head(words).top) = b THEN <<Head(words)>> ELSE <<>>)
         \o WordsInBucket(Tail(words), b)

\* _group_by_y: bucket -> words
GroupByY(words) ==
    [b \in {Bucket(words[i].top) : i \in 1..Len(words)} |->
        WordsInBucket(words, b)]

\* sorted(keys)
RECURSIVE SortedSeq(_)
SortedSeq(S) ==
    IF S = {} THEN <<>>
    ELSE LET lo == CHOOSE x \in S : \A y \in S : x <= y
         IN  <<lo>> \o SortedSeq(S \ {lo})

\* The first date token of the row in the date range, or None
RECURSIVE DateTokenOf(_, _, _)
DateTokenOf(row_words, lo, hi) ==
    IF row_words = <<>> THEN None
    ELSE LET w == Head(row_words)
         IN  IF RE_DATE_TOKEN(w.text) /\ lo <= w.x0 /\ w.x0 <= hi THEN w.text
             ELSE DateTokenOf(Tail(row_words), lo, hi)

\* config.get("date", [795, 830])
RECURSIVE DateRangeFrom(_, _)
DateRangeFrom(config, i) ==
    IF i > Len(config) THEN [lo |-> 795, hi |-> 830]
    ELSE IF config[i].col = "date" THEN [lo |-> config[i].lo, hi |-> config[i].hi]
    ELSE DateRangeFrom(config, i + 1)

DateRange(config) == DateRangeFrom(config, 1)

\* col_values, shift_premium and activity_words before the loop over the row
EmptyColValues ==
    [cv |-> [k \in ColKeys |-> None], sp |-> <<>>, act |-> <<>>]

\* The body of `for w in row_words` in the column -> value loop
BindWord(acc, w, config) ==
    LET col == AssignColumn(w.x0, config)
    IN  IF col = NoCol THEN acc
        ELSE IF col = "standard_hours"
        THEN [acc EXCEPT !.cv[col] = ParseStandardHours(w.text)]
        ELSE IF col = "shift_marker"
        THEN [acc EXCEPT !.sp = <<w.text = <<"*">> >>]
        ELSE IF col = "activity"
        THEN [acc EXCEPT !.act = Append(acc.act, [x0 |-> w.x0, text |-> w.text])]
        ELSE [acc EXCEPT !.cv[col] = w.text]

RECURSIVE BindWords(_, _, _)
BindWords(acc, row_words, config) ==
    IF row_words = <<>> THEN acc
    ELSE BindWords(BindWord(acc, Head(row_words), config), Tail(row_words), config)

\* activity_words left in the order of the row
SortDesc_RowOrder(ws) == ws

\* list.sort(key=x0, reverse=True): descending, equal keys keep their order
RECURSIVE InsertDesc(_, _)
InsertDesc(sorted, e) ==
    IF sorted = <<>> THEN <<e>>
    ELSE IF Head(sorted).x0 >= e.x0 THEN <<Head(sorted)>> \o InsertDesc(Tail(sorted), e)
    ELSE <<e>> \o sorted

RECURSIVE SortDesc(_)
SortDesc(ws) ==
    IF ws = <<>> THEN <<>>
    ELSE InsertDesc(SortDesc(SubSeq(ws, 1, Len(ws) - 1)), ws[Len(ws)])

\* " ".join(text for _, text in activity_words)
RECURSIVE JoinTexts(_)
JoinTexts(ws) ==
    IF ws = <<>> THEN <<>>
    ELSE IF Len(ws) = 1 THEN ws[1].text
    ELSE ws[1].text \o Sp \o JoinTexts(Tail(ws))

\* str.strip()
RECURSIVE Strip(_)
Strip(t) ==
    IF t = <<>> THEN t
    ELSE IF Head(t) = " " THEN Strip(Tail(t))
    ELSE IF t[Len(t)] = " " THEN Strip(SubSeq(t, 1, Len(t) - 1))
    ELSE t

\* salary_month[3:] if salary_month else ""
SalaryMonthDisplay(salary_month) == SubSeq(salary_month, 4, Len(salary_month))

\* The record built for a row whose date token is date_token, and the line
\* logged for it
RowRecord(row_words, config, salary_month, page_no, date_token) ==
    LET d == IntOf(SubSeq(date_token, 1, 2))
        m == IntOf(SubSeq(date_token, 4, 5))
        date_value == ReconstructDate(d, m, salary_month)
        acc == BindWords(EmptyColValues, row_words, config)
        activity == JoinTexts(SortDesc(acc.act))
        activity_raw == Strip(activity)
        activity_en == ACTIVITY_MAP_get(activity_raw)
        null_time == activity_raw \in NULL_ACTIVITIES
        t == [k \in ColKeys |-> IF null_time THEN None ELSE acc.cv[k]]
    IN  [ record |->
            [ salary_month        |-> SalaryMonthDisplay(salary_month),
              full_date           |-> date_value,
              day_of_week         |-> acc.cv["day_of_week"],
              day_type            |-> activity_en,
              shift_premium       |-> (IF acc.sp = <<>> THEN FALSE ELSE acc.sp[1]),
              entry_actual        |-> t["entry_actual"],
              exit_actual         |-> t["exit_actual"],
              total_present_hours |-> t["total_present"],
              entry_for_pay       |-> t["entry_for_pay"],
              exit_for_pay        |-> t["exit_for_pay"],
              total_for_pay_hours |-> t["total_for_pay"],
              standard_hours      |-> t["standard_hours"],
              ot_100              |-> t["ot_100"],
              ot_125              |-> t["ot_125"],
              ot_150              |-> t["ot_150"],
              ot_200              |-> t["ot_200"],
              shift_bonus_87      |-> t["shift_87"],
              shift_bonus_50      |-> t["shift_50"],
              shift_bonus_20      |-> t["shift_20"],
              deduction           |-> t["deduction"] ],
          log |-> [ kind |-> "row", page |-> page_no,
                    date_token |-> date_token,
                    activity_raw |-> activity_raw,
                    activity_en |-> activity_en ] ]

\* One iteration of the loop with a row whose date does not resolve skipped
ParseRow_DropUndated(row_words, config, salary_month, page_no) ==
    LET date_range == DateRange(config)
        date_token == DateTokenOf(row_words, date_range.lo, date_range.hi)
    IN  IF date_token = None THEN <<>>
        ELSE IF ReconstructDate(IntOf(SubSeq(date_token, 1, 2)),
                                IntOf(SubSeq(date_token, 4, 5)),
                                salary_month) = NoDate THEN <<>>
        ELSE <<RowRecord(row_words, config, salary_month, page_no, date_token)>>

\* One iteration of `for _bucket, row_words in sorted(grouped.items())`:
\* <<>> when the row is skipped, else the record and the line logged
ParseRow(row_words, config, salary_month, page_no) ==
    LET date_range == DateRange(config)
        date_token == DateTokenOf(row_words, date_range.lo, date_range.hi)
    IN  IF date_token = None THEN <<>>
        ELSE <<RowRecord(row_words, config, salary_month, page_no, date_token)>>

\* The loop of _parse_data_rows over the buckets `keys` (sorted), each giving
\* nothing or one record and one log line
RECURSIVE ParseBuckets(_, _, _, _, _)
ParseBuckets(grouped, keys, config, salary_month, page_no) ==
    IF keys = <<>> THEN <<>>
    ELSE ParseRow(grouped[Head(keys)], config, salary_month, page_no)
         \o ParseBuckets(grouped, Tail(keys), config, salary_month, page_no)

\* _parse_data_rows going through the rows from the bottom of the page up
ParseDataRows_BottomUp(words, config, salary_month, page_no) ==
    LET grouped == GroupByY(words)
        out == ParseBuckets(grouped, Reverse(SortedSeq(DOMAIN grouped)), config,
                            salary_month, page_no)
    IN  [ records |-> [i \in 1..Len(out) |-> out[i].record],
          logs |-> [i \in 1..Len(out) |-> out[i].log] ]

\* _parse_data_rows(words, config, salary_month, page_no): the records
\* returned and the lines logged, in order
ParseDataRows(words, config, salary_month, page_no) ==
    LET grouped == GroupByY(words)
        out == ParseBuckets(grouped, SortedSeq(DOMAIN grouped), config,
                            salary_month, page_no)
    IN  [ records |-> [i \in 1..Len(out) |-> out[i].record],
          logs |-> [i \in 1..Len(out) |-> out[i].log] ]

----------------------------------------------------------------------------
(* malam_saar_attendance._parse_data_rows as a loop over the rows *)

\* A normalised pdfplumber word of the fixed-range variant
Tok(text, x0, top) == [text |-> text, x0 |-> x0, top |-> top]

\* The words the pages of the model are made of
WordCatalog ==
    { Tok(DateText(31, 4), 800, 100),    \* day 31 in a 30-day month
      Tok(DateText(31, 13), 796, 108),   \* month 13
      Tok(DateText(29, 2), 800, 116),    \* valid in a leap year only
      Tok(DateText(1, 3), 810, 101),     \* a valid day, in the row of 31/04
      Tok(DateText(2, 3), 600, 108),     \* a date outside the date range
      Tok(TimeText(8, 0), 710, 100),
      Tok(W_avoda, 500, 100),
      Tok(W_zug, 520, 108) }

\* The sequences of up to n different words of S
RECURSIVE SeqsOf(_, _)
SeqsOf(S, n) ==
    IF n = 0 THEN {<<>>}
    ELSE LET shorter == SeqsOf(S, n - 1)
         IN  shorter \cup
             { Append(q, w) : q \in {r \in shorter : Len(r) = n - 1},
                              w \in S }

DistinctSeqsOf(S, n) ==
    { q \in SeqsOf(S, n) : \A i, j \in 1..Len(q) : i # j => q[i] # q[j] }

WordInputs == DistinctSeqsOf(WordCatalog, MaxWords)

\* The salary months a call is given: header values and the initial value
RowsSalaryMonths ==
    { SalaryMonthText(1, 3, 2024), SalaryMonthText(1, 1, 2025),
      SalaryMonthText(1, 1, 1900) }

\* The activity phrases of a line, each the words in reading order: none,
\* keys of ACTIVITY_MAP of one, two and three words, the two null activities,
\* and phrases that are no key
ActivityPhrases ==
    { <<>>, <<W_avoda>>, <<W_erev, W_hag>>,
      <<W_ein, W_divuah, W_nohehut>>, <<W_lelo, W_teken, W_avoda>>,
      <<W_zug>>, <<W_mahala, W_zug>> }

\* The left edges of the words of a phrase, the first word rightmost; the
\* third is where the activity and standard_hours ranges overlap
ActivityEdges == <<540, 515, 488>>

\* The other words a line can hold, with their left edges
LineTokens ==
    { Tok(TimeText(8, 0), 710, 100),                 \* entry_actual
      Tok(TimeText(7, 55), 715, 100),                \* entry_actual again
      Tok(TimeText(17, 0), 680, 100),                \* exit_actual
      Tok(TimeText(9, 0), 660, 100),                 \* total_present
      Tok(TimeText(8, 0) \o TimeText(8, 0), 450, 100),      \* merged standard_hours
      Tok(TimeText(8, 30), 440, 100),                \* standard_hours
      Tok(TimeText(8, 0) \o <<":">> \o TimeText(8, 0), 460, 100),  \* length 11
      Tok(<<"1", "2", "3", "4", "5", "6", "7", "8", "9", "0">>, 470, 100),
      Tok(TimeText(8, 0) \o <<":", "0", "0">>, 480, 100),   \* HH:MM:SS
      Tok(<<"1", ".", "5", "0">>, 400, 100),          \* ot_100
      Tok(<<"2", ".", "0", "0">>, 260, 100),          \* shift_87
      Tok(<<"0", ".", "5", "0">>, 120, 100),          \* deduction
      Tok(<<"*">>, 755, 100),                         \* shift_marker
      Tok(<<"alef">>, 785, 100),                      \* day_of_week
      Tok(<<"bet">>, 797, 100),                       \* date and day_of_week overlap
      Tok(<<"x">>, 50, 100) }                         \* no column

\* Words in ascending order of their left edge, as extract_words gives the
\* words of one line
RECURSIVE ByLeftEdge(_)
ByLeftEdge(S) ==
    IF S = {} THEN <<>>
    ELSE LET lo == CHOOSE w \in S : \A v \in S : w.x0 <= v.x0
         IN  <<lo>> \o ByLeftEdge(S \ {lo})

\* A line of the table: a date, an activity phrase and other words
LineWords(date, phrase, others) ==
    ByLeftEdge({Tok(date, 810, 100)}
               \cup {Tok(phrase[k], ActivityEdges[k], 100) : k \in 1..Len(phrase)}
               \cup others)

InitRows ==
    /\ \/ rows_words \in WordInputs
       \/ \E date \in {DateText(1, 3), DateText(31, 4)}, phrase \in ActivityPhrases,
             others \in {S \in SUBSET LineTokens : Cardinality(S) <= MaxLineTokens} :
               rows_words = LineWords(date, phrase, others)
    /\ rows_config = DEFAULT_CONFIG
    /\ rows_salary_month \in RowsSalaryMonths
    /\ rows_page_num = 1
    /\ rows_keys = SortedSeq(DOMAIN GroupByY(rows_words))
    /\ bucket_i = 1
    /\ rows_records = <<>>
    /\ rows_pc = "loop"
    /\ log_messages = <<>>

\* _parse_data_rows not running
IdleRows ==
    /\ rows_words = <<>>
    /\ rows_config = <<>>
    /\ rows_salary_month = <<>>
    /\ rows_page_num = 0
    /\ rows_keys = <<>>
    /\ bucket_i = 1
    /\ rows_records = <<>>
    /\ rows_pc = "idle"

\* One iteration of `for _bucket, row_words in sorted(grouped.items())`
ParseNextRow ==
    /\ rows_pc = "loop"
    /\ bucket_i <= Len(rows_keys)
    /\ LET out == ParseRow(GroupByY(rows_words)[rows_keys[bucket_i]],
                           rows_config, rows_salary_month, rows_page_num)
       IN  /\ rows_records' = rows_records \o [i \in 1..Len(out) |-> out[i].record]
           /\ log_messages' = log_messages \o [i \in 1..Len(out) |-> out[i].log]
    /\ bucket_i' = bucket_i + 1
    /\ UNCHANGED <<rows_words, rows_config, rows_salary_month, rows_page_num,
                   rows_keys, rows_pc>>
    /\ UNCHANGED <<varsPage, varsDate, varsPdf, varsGroup, varsBlock, varsReader,
                   varsNorm,
                   varsApp>>

\* `return records`
ParseReturn ==
    /\ rows_pc = "loop"
    /\ bucket_i > Len(rows_keys)
    /\ rows_pc' = "returned"
    /\ UNCHANGED <<rows_words, rows_config, rows_salary_month, rows_page_num,
                   rows_keys, bucket_i, rows_records, log_messages>>
    /\ UNCHANGED <<varsPage, varsDate, varsPdf, varsGroup, varsBlock, varsReader,
                   varsNorm,
                   varsApp>>

NextRows == ParseNextRow \/ ParseReturn

----------------------------------------------------------------------------
(* malam_saar_attendance.process_pdf *)

\* The normalised text of a page, as far as process_pdf reads it: whether
\* _RE_DATA_PAGE_MARKER is found in it, and the text each header pattern
\* captures in it ("" when the pattern is not found)
PageText(marker, salary_month, employee_id, tag_number, employee_name) ==
    [ marker |-> marker, salary_month |-> salary_month,
      employee_id |-> employee_id, tag_number |-> tag_number,
      employee_name |-> employee_name ]

\* A page of the PDF: its text, its words as extracted (Hebrew in visual
\* order), and how reading it ends: fails is "none", or the call that raises
\* ("extract_text", "extract_words") with the class of the exception
Page(text, words, fails, exc) ==
    [ text |-> text, words |-> words, fails |-> fails, exc |-> exc ]

\* The exception classes the except clause of process_pdf names
CaughtClasses ==
    {"OSError", "ValueError", "AttributeError", "KeyError", "TypeError",
     "RuntimeError"}

Id_A == <<"1", "2", "3", "4", "5", "6", "7">>
Id_B == <<"7", "6", "5", "4", "3", "2", "1">>
Tag_A == <<"4", "2">>
Name_A == W_ben \o Sp \o W_zug
NoText == <<>>

\* A page laid out in columns, as process_pdf is given it: a data page whose
\* header names the salary month 03/2024 and a 7-digit employee id, with a
\* row of three dates and below it their day letters, entry times and exit
\* times
ColumnPdfPage ==
    Page(PageText(TRUE, SalaryMonthText(1, 3, 2024), Id_A, NoText, NoText),
         << Tok(SalaryMonthText(1, 3, 2024), 275, 30), Tok(Id_A, 182, 30),
            Tok(DateText(1, 3), 90, 50), Tok(DateText(2, 3), 114, 50),
            Tok(DateText(3, 3), 138, 50),
            Tok(<<"alef">>, 98, 60), Tok(<<"vav">>, 122, 60),
            Tok(<<"shin">>, 146, 60),
            Tok(TimeText(8, 1), 90, 70), Tok(TimeText(8, 6), 114, 70),
            Tok(TimeText(8, 7), 138, 70),
            Tok(<<"shin", "ayin", "tav">>, 292, 70),
            Tok(<<"kaf", "nun", "yod", "samekh", "he">>, 318, 70),
            Tok(TimeText(17, 1), 90, 80), Tok(TimeText(17, 6), 114, 80),
            Tok(TimeText(17, 7), 138, 80),
            Tok(<<"shin", "ayin", "tav">>, 292, 80),
            Tok(<<"yod", "tsadi", "yod", "alef", "he">>, 318, 80) >>,
         "none", "none")

\* The pages the PDFs of the model are made of
PageCatalog ==
    { \* a data page with every header field and one valid row
      Page(PageText(TRUE, SalaryMonthText(1, 3, 2024), Id_A, Tag_A, Name_A),
           <<Tok(DateText(1, 3), 810, 101), Tok(Reverse(W_avoda), 500, 100)>>,
           "none", "none"),
      \* a data page with no header field and a row whose date is invalid
      Page(PageText(TRUE, NoText, NoText, NoText, NoText),
           <<Tok(DateText(31, 4), 800, 100), Tok(TimeText(8, 0), 710, 100)>>,
           "none", "none"),
      \* a data page with no header field and one valid row
      Page(PageText(TRUE, NoText, NoText, NoText, NoText),
           <<Tok(DateText(1, 3), 810, 101), Tok(TimeText(8, 0), 710, 100)>>,
           "none", "none"),
      \* a data page naming another employee and salary month, two rows
      Page(PageText(TRUE, SalaryMonthText(1, 1, 2025), Id_B, NoText, NoText),
           <<Tok(DateText(29, 2), 800, 116), Tok(DateText(1, 3), 810, 101)>>,
           "none", "none"),
      \* the page laid out in columns
      ColumnPdfPage,
      \* a data page with no row
      Page(PageText(TRUE, NoText, NoText, Tag_A, NoText), <<>>, "none", "none"),
      \* a summary page that names an employee and a salary month
      Page(PageText(FALSE, SalaryMonthText(1, 1, 2025), Id_B, NoText, NoText),
           <<Tok(DateText(1, 3), 810, 101)>>, "none", "none"),
      \* a summary page with no header field
      Page(PageText(FALSE, NoText, NoText, NoText, NoText), <<>>, "none", "none"),
      \* a page whose text cannot be extracted
      Page(PageText(TRUE, NoText, Id_B, NoText, NoText),
           <<Tok(DateText(1, 3), 810, 101)>>, "extract_text", "OSError"),
      \* a data page whose words cannot be extracted
      Page(PageText(TRUE, NoText, Id_B, NoText, NoText),
           <<Tok(DateText(1, 3), 810, 101)>>, "extract_words", "ValueError"),
      \* the same, the exception being of a class the except clause does not name
      Page(PageText(TRUE, NoText, Id_B, NoText, NoText),
           <<Tok(DateText(1, 3), 810, 101)>>, "extract_words", "IndexError") }

HeaderFields == {"employee_id", "employee_name", "tag_number", "salary_month"}

\* _extract_headers: the fields whose pattern is found ("" for the others,
\* which headers.get(...) reads as missing)
ExtractHeaders(text) == [f \in HeaderFields |-> text[f]]

\* The update of the header fields with the test left out: every field is
\* overwritten
UpdateEmployee_Always(employee, headers) ==
    [f \in HeaderFields |-> headers[f]]

\* The four `if headers.get(f): current_employee[f] = headers[f]`
UpdateEmployee(employee, headers) ==
    [f \in HeaderFields |-> IF headers[f] # <<>> THEN headers[f] ELSE employee[f]]

\* rec["employee_id"] = ..., rec["employee_name"] = ..., rec["tag_number"] = ...
AttachEmployee(rec, employee) ==
    [k \in DOMAIN rec \cup {"employee_id", "employee_name", "tag_number"} |->
        IF k \in {"employee_id", "employee_name", "tag_number"}
        THEN employee[k] ELSE rec[k]]

InitPdf ==
    /\ pdf_pages = <<>>
    /\ page_num = 0
    /\ current_employee =
          [ employee_id |-> <<>>, employee_name |-> <<>>, tag_number |-> <<>>,
            salary_month |-> SalaryMonthText(1, 1, 1900) ]
    /\ all_records = <<>>
    /\ record_page = <<>>
    /\ pdf_pc = "pages"
    /\ log_messages = <<>>

\* process_pdf not running
IdlePdf ==
    /\ pdf_pages = <<>>
    /\ page_num = 0
    /\ current_employee = <<>>
    /\ all_records = <<>>
    /\ record_page = <<>>
    /\ pdf_pc = "idle"

\* The next page of the PDF is read: the loop takes it as page page_num + 1
NextPageIs(page) ==
    /\ pdf_pc = "pages"
    /\ page_num < MaxPages
    /\ pdf_pages' = Append(pdf_pages, page)
    /\ page_num' = page_num + 1

\* The iteration for a page without the marker, the header fields being read
\* before the marker is looked for
PageSummary_ReadsHeaders(page) ==
    /\ NextPageIs(page)
    /\ page.fails # "extract_text"
    /\ ~page.text.marker
    /\ current_employee' = UpdateEmployee(current_employee, ExtractHeaders(page.text))
    /\ log_messages' = Append(log_messages,
                              [kind |-> "summary", page |-> page_num + 1])
    /\ UNCHANGED <<all_records, record_page, pdf_pc>>
    /\ UNCHANGED <<varsPage, varsDate, varsRows, varsGroup, varsBlock, varsReader,
                   varsNorm,
                   varsApp>>

\* An iteration of the page loop for a page without the data-page marker
PageSummary(page) ==
    /\ NextPageIs(page)
    /\ page.fails # "extract_text"
    /\ ~page.text.marker
    /\ log_messages' = Append(log_messages,
                              [kind |-> "summary", page |-> page_num + 1])
    /\ UNCHANGED <<current_employee, all_records, record_page, pdf_pc>>
    /\ UNCHANGED <<varsPage, varsDate, varsRows, varsGroup, varsBlock, varsReader,
                   varsNorm,
                   varsApp>>

\* An iteration of the page loop for a data page that is read without error
PageData(page) ==
    /\ NextPageIs(page)
    /\ page.fails = "none"
    /\ page.text.marker
    /\ LET employee == UpdateEmployee(current_employee, ExtractHeaders(page.text))
           words == normalize_row_words(page.words)
           parsed == ParseDataRows(words, DEFAULT_CONFIG, employee.salary_month,
                                   page_num + 1)
           page_records == [i \in 1..Len(parsed.records) |->
                               AttachEmployee(parsed.records[i], employee)]
       IN  /\ current_employee' = employee
           /\ all_records' = all_records \o page_records
           /\ record_page' = record_page
                             \o [i \in 1..Len(page_records) |-> page_num + 1]
           /\ log_messages' = log_messages \o parsed.logs
                 \o << [ kind |-> "data", page |-> page_num + 1,
                         rows |-> Len(page_records),
                         month |-> employee.salary_month ] >>
    /\ UNCHANGED pdf_pc
    /\ UNCHANGED <<varsPage, varsDate, varsRows, varsGroup, varsBlock, varsReader,
                   varsNorm,
                   varsApp>>

\* The header fields as they are when the page raises: extract_text raises
\* before they are read, extract_words after they have been updated
EmployeeAtRaise(page) ==
    IF page.fails = "extract_words"
    THEN UpdateEmployee(current_employee, ExtractHeaders(page.text))
    ELSE current_employee

\* Whether reading the page raises: extract_words is called on data pages only
Raises(page) ==
    \/ page.fails = "extract_text"
    \/ page.fails = "extract_words" /\ page.text.marker

\* An iteration of the page loop that raises an exception the except clause
\* catches
PageError(page) ==
    /\ NextPageIs(page)
    /\ Raises(page)
    /\ page.exc \in CaughtClasses
    /\ current_employee' = EmployeeAtRaise(page)
    /\ log_messages' = Append(log_messages,
                              [ kind |-> "error", page |-> page_num + 1,
                                reason |-> page.exc ])
    /\ UNCHANGED <<all_records, record_page, pdf_pc>>
    /\ UNCHANGED <<varsPage, varsDate, varsRows, varsGroup, varsBlock, varsReader,
                   varsNorm,
                   varsApp>>

\* An iteration of the page loop that raises an exception of another class:
\* it leaves process_pdf, which returns nothing
PageRaise(page) ==
    /\ NextPageIs(page)
    /\ Raises(page)
    /\ page.exc \notin CaughtClasses
    /\ current_employee' = EmployeeAtRaise(page)
    /\ pdf_pc' = "raised"
    /\ UNCHANGED <<all_records, record_page, log_messages>>
    /\ UNCHANGED <<varsPage, varsDate, varsRows, varsGroup, varsBlock, varsReader,
                   varsNorm,
                   varsApp>>

\* The PDF has no further page: `return all_records`
PdfReturn ==
    /\ pdf_pc = "pages"
    /\ pdf_pc' = "returned"
    /\ UNCHANGED <<pdf_pages, page_num, current_employee, all_records,
                   record_page, log_messages>>
    /\ UNCHANGED <<varsPage, varsDate, varsRows, varsGroup, varsBlock, varsReader,
                   varsNorm,
                   varsApp>>

NextPdf ==
    \/ \E page \in PageCatalog : PageSummary(page)
    \/ \E page \in PageCatalog : PageData(page)
    \/ \E page \in PageCatalog : PageError(page)
    \/ \E page \in PageCatalog : PageRaise(page)
    \/ PdfReturn

----------------------------------------------------------------------------
(* attendance_reader._group_rows, and both row groupers on the same words *)

\* y_tolerance of _group_rows
GroupRowsTolerance == 4

Abs(n) == IF n < 0 THEN -n ELSE n

\* next((k for k in buckets if abs(k - y) <= y_tolerance), None): the place
\* of the first bucket, in insertion order, whose key is within tolerance;
\* 0 when there is none
RECURSIVE MatchedFrom(_, _, _)
MatchedFrom(bs, y, i) ==
    IF i > Len(bs) THEN 0
    ELSE IF Abs(bs[i].key - y) <= GroupRowsTolerance THEN i
    ELSE MatchedFrom(bs, y, i + 1)

\* The body of `for w in words` with the word compared to the last word of
\* each bucket instead of the bucket's key
RECURSIVE MatchedLastFrom(_, _, _)
MatchedLastFrom(bs, y, i) ==
    IF i > Len(bs) THEN 0
    ELSE IF Abs(bs[i].words[Len(bs[i].words)].top - y) <= GroupRowsTolerance THEN i
    ELSE MatchedLastFrom(bs, y, i + 1)

AddToBuckets_LastWord(bs, w) ==
    LET matched == MatchedLastFrom(bs, w.top, 1)
    IN  IF matched = 0 THEN Append(bs, [key |-> w.top, words |-> <<w>>])
        ELSE [bs EXCEPT ![matched].words = Append(@, w)]

\* The body of `for w in words`: the buckets, a dict in insertion order, as a
\* sequence of (key, words)
AddToBuckets(bs, w) ==
    LET matched == MatchedFrom(bs, w.top, 1)
    IN  IF matched = 0 THEN Append(bs, [key |-> w.top, words |-> <<w>>])
        ELSE [bs EXCEPT ![matched].words = Append(@, w)]

\* sorted(buckets.items()): the (y, words) tuples by ascending y
SortedItems(bs) ==
    LET keys == SortedSeq({bs[i].key : i \in 1..Len(bs)})
    IN  [k \in 1..Len(keys) |->
            LET b == CHOOSE i \in 1..Len(bs) : bs[i].key = keys[k]
            IN  <<bs[b].key, bs[b].words>>]

RECURSIVE FillBuckets(_, _)
FillBuckets(bs, words) ==
    IF words = <<>> THEN bs
    ELSE FillBuckets(AddToBuckets(bs, Head(words)), Tail(words))

\* _group_rows(words)
GroupRows(words) == SortedItems(FillBuckets(<<>>, words))

\* The words given to the groupers: any tops, one text and place
GroupWordInputs ==
    UNION { [1..n -> {Word(TimeText(8, 0), 100, 120, t) : t \in 0..MaxTop}] :
              n \in 0..MaxGroupWords }

InitGroup ==
    /\ grp_words \in GroupWordInputs
    /\ grp_i = 1
    /\ buckets = <<>>
    /\ grouped_rows = <<>>
    /\ grid_rows = <<>>
    /\ grp_pc = "loop"

\* The row groupers not running
IdleGroup ==
    /\ grp_words = <<>>
    /\ grp_i = 1
    /\ buckets = <<>>
    /\ grouped_rows = <<>>
    /\ grid_rows = <<>>
    /\ grp_pc = "idle"

\* One iteration of `for w in words` of _group_rows
GroupWord ==
    /\ grp_pc = "loop"
    /\ grp_i <= Len(grp_words)
    /\ buckets' = AddToBuckets(buckets, grp_words[grp_i])
    /\ grp_i' = grp_i + 1
    /\ UNCHANGED <<grp_words, grouped_rows, grid_rows, grp_pc>>
    /\ UNCHANGED <<varsPage, varsDate, varsRows, varsPdf, varsBlock, varsReader, varsNorm, varsApp,
                   log_messages>>

\* `return sorted(buckets.items())`
GroupRowsReturn ==
    /\ grp_pc = "loop"
    /\ grp_i > Len(grp_words)
    /\ grouped_rows' = SortedItems(buckets)
    /\ grp_pc' = "sorted"
    /\ UNCHANGED <<grp_words, grp_i, buckets, grid_rows>>
    /\ UNCHANGED <<varsPage, varsDate, varsRows, varsPdf, varsBlock, varsReader, varsNorm, varsApp,
                   log_messages>>

\* grouped = _group_by_y(words), on the same words
CallGroupByY ==
    /\ grp_pc = "sorted"
    /\ grid_rows' = GroupByY(grp_words)
    /\ grp_pc' = "done"
    /\ UNCHANGED <<grp_words, grp_i, buckets, grouped_rows>>
    /\ UNCHANGED <<varsPage, varsDate, varsRows, varsPdf, varsBlock, varsReader, varsNorm, varsApp,
                   log_messages>>

NextGroup == GroupWord \/ GroupRowsReturn \/ CallGroupByY

----------------------------------------------------------------------------
(* C10 *)

C10_Tops == {grp_words[i].top : i \in 1..Len(grp_words)}

\* Two vertical positions are in one row of _group_rows
C10_SameBucketRow(t1, t2) ==
    \E r \in 1..Len(grouped_rows) :
        \E i, j \in 1..Len(grouped_rows[r][2]) :
            grouped_rows[r][2][i].top = t1 /\ grouped_rows[r][2][j].top = t2

\* Two vertical positions are in one row of _group_by_y
C10_SameGridRow(t1, t2) ==
    \E b \in DOMAIN grid_rows :
        \E i, j \in 1..Len(grid_rows[b]) :
            grid_rows[b][i].top = t1 /\ grid_rows[b][j].top = t2

C10_Near(t1, t2) == (IF t1 < t2 THEN t2 - t1 ELSE t1 - t2) <= 4

\* C10 as stated: under both groupers two tokens are in the same row if and
\* only if their vertical positions differ by no more than 4.
C10_AsStated ==
    grp_pc = "done" =>
        \A t1, t2 \in C10_Tops :
            /\ C10_SameBucketRow(t1, t2) <=> C10_Near(t1, t2)
            /\ C10_SameGridRow(t1, t2) <=> C10_Near(t1, t2)

\* C10 amended: every token is in exactly one row under both groupers.  Under
\* _group_rows each token is within 4 of the first token put in its row, so
\* two tokens of one row differ by at most 8, and the first tokens of two
\* rows differ by more than 4.  Under _group_by_y two tokens are in the same
\* row if and only if 4 * round(top / 4) is the same for both, so two tokens
\* of one row differ by at most 4.  Under neither do two tokens within 4 of
\* each other have to be in the same row.
C10_RowGrouping ==
    grp_pc = "done" =>
        /\ \A t \in C10_Tops : C10_SameBucketRow(t, t) /\ C10_SameGridRow(t, t)
        /\ \A r1, r2 \in 1..Len(grouped_rows) :
              \A i \in 1..Len(grouped_rows[r1][2]) :
                 \A j \in 1..Len(grouped_rows[r2][2]) :
                    grouped_rows[r1][2][i].top = grouped_rows[r2][2][j].top
                    => r1 = r2
        /\ \A r \in 1..Len(grouped_rows) :
              /\ grouped_rows[r][1] = grouped_rows[r][2][1].top
              /\ \A i \in 1..Len(grouped_rows[r][2]) :
                    C10_Near(grouped_rows[r][2][i].top, grouped_rows[r][1])
        /\ \A r1, r2 \in 1..Len(grouped_rows) :
              r1 # r2 => ~C10_Near(grouped_rows[r1][1], grouped_rows[r2][1])
        /\ \A t1, t2 \in C10_Tops :
              /\ C10_SameBucketRow(t1, t2) =>
                    (IF t1 < t2 THEN t2 - t1 ELSE t1 - t2) <= 8
              /\ C10_SameGridRow(t1, t2) => C10_Near(t1, t2)
              /\ C10_SameGridRow(t1, t2) <=>
                    (\E k \in 0..MaxTop :
                        /\ (2 * Abs(t1 - 4 * k) < 4
                            \/ (2 * Abs(t1 - 4 * k) = 4 /\ k % 2 = 0))
                        /\ (2 * Abs(t2 - 4 * k) < 4
                            \/ (2 * Abs(t2 - 4 * k) = 4 /\ k % 2 = 0)))

\* Tokens at 4, 0 and 8 are one row of _group_rows (0 and 8 differ by 8), and
\* three rows of _group_by_y
C10_Witness ==
    /\ grp_pc = "done"
    /\ Len(grp_words) = 3
    /\ grp_words[1].top = 4 /\ grp_words[2].top = 0 /\ grp_words[3].top = 8
    /\ Len(grouped_rows) = 1
    /\ Cardinality(DOMAIN grid_rows) = 3

----------------------------------------------------------------------------
(* attendance_reader._process_block: adaptive column binding.  Horizontal
   positions are kept doubled (x0 + x1 is twice the x-center), and the
   tolerance is a fraction num / den of doubled units. *)

\* None for a role's row (a row of _group_rows always has a word)
NoRow == <<>>

\* Twice _x_center(word)
XCenter2(word) == word.x0 + word.x1

\* `sub in text`
Contains(text, sub) ==
    \E i \in 0..(Len(text) - Len(sub)) : SubSeq(text, i + 1, i + Len(sub)) = sub

NotTimeNorDate(w) == ~TIME_RE(w.text) /\ ~DATE_RE(w.text)

\* _row_label(row_words)
RowLabel(row_words) == JoinTexts(SelectSeq(row_words, NotTimeNorDate))

\* sum(1 for t in texts if t in HEBREW_DAYS) >= 3
IsDayRow(texts) ==
    Cardinality({i \in 1..Len(texts) : texts[i] \in HEBREW_DAYS_keys}) >= 3

\* The Hebrew words of the row labels
L_shaat == <<"shin", "ayin", "tav">>
L_knisa == <<"kaf", "nun", "yod", "samekh", "he">>
L_yetzia == <<"yod", "tsadi", "yod", "alef", "he">>
L_sahak == <<"samekh", "he", "\"", "kaf_f">>
L_sug == <<"samekh", "vav", "gimel">>
L_yom == <<"yod", "vav", "mem_f">>
L_shaot == <<"shin", "ayin", "vav", "tav">>
L_nosafot == <<"nun", "vav", "samekh", "pe", "vav", "tav">>

\* The role a row's label names, given which roles are already taken: the
\* if / elif chain of the classification
LabelRole(label, entry_taken, exit_taken, total_taken, day_type_taken) ==
    IF Contains(label, L_shaat \o Sp \o L_knisa) /\ ~entry_taken THEN "entry"
    ELSE IF Contains(label, L_shaat \o Sp \o L_yetzia) /\ ~exit_taken THEN "exit"
    ELSE IF /\ Contains(label, <<"samekh", "he">>)
            /\ Contains(label, <<"nun", "vav", "kaf", "het">>)
            /\ ~total_taken THEN "total"
    ELSE IF /\ (Contains(label, L_sug \o Sp \o L_yom) \/ Contains(label, W_nohehut))
            /\ ~day_type_taken THEN "day_type"
    ELSE "none"

\* What the classification loop does with one row: the role whose variable
\* it assigns, "none" when it assigns nothing
RowRole(row_words, date_row, day_row, entry_row, exit_row, total_row, day_type_row) ==
    IF IsDateRow(Texts(row_words))
    THEN (IF date_row = NoRow THEN "date" ELSE "none")
    ELSE IF IsDayRow(Texts(row_words))
    THEN (IF day_row = NoRow THEN "day" ELSE "none")
    ELSE LabelRole(RowLabel(row_words), entry_row # NoRow, exit_row # NoRow,
                   total_row # NoRow, day_type_row # NoRow)

\* The (x, text) pairs of the DATE_RE words of the date row, in row order
DatePairs(row_words) ==
    LET dated(w) == DATE_RE(w.text)
        ws == SelectSeq(row_words, dated)
    IN  [i \in 1..Len(ws) |-> [x |-> XCenter2(ws[i]), text |-> ws[i].text]]

\* sorted(..., key=lambda p: p[0]): stable, ascending x
RECURSIVE InsertByX(_, _)
InsertByX(sorted, p) ==
    IF sorted = <<>> THEN <<p>>
    ELSE IF sorted[Len(sorted)].x <= p.x THEN Append(sorted, p)
    ELSE Append(InsertByX(SubSeq(sorted, 1, Len(sorted) - 1), p), sorted[Len(sorted)])

RECURSIVE SortByX(_)
SortByX(pairs) ==
    IF pairs = <<>> THEN <<>>
    ELSE InsertByX(SortByX(SubSeq(pairs, 1, Len(pairs) - 1)), pairs[Len(pairs)])

DateCols(date_row) == SortByX(DatePairs(date_row))

MaxOf(a, b) == IF a >= b THEN a ELSE b

\* The tolerance without the 10 pt floor
Tolerance_NoFloor(cols) ==
    IF Len(cols) > 1
    THEN [num |-> 45 * (cols[Len(cols)].x - cols[1].x),
          den |-> 100 * (Len(cols) - 1)]
    ELSE [num |-> 30, den |-> 1]

\* tolerance = max(avg_spacing * 0.45, 10.0), or 15.0 for a single column
Tolerance(cols) ==
    IF Len(cols) > 1
    THEN [num |-> MaxOf(45 * (cols[Len(cols)].x - cols[1].x),
                        2000 * (Len(cols) - 1)),
          den |-> 100 * (Len(cols) - 1)]
    ELSE [num |-> 30, den |-> 1]

\* distance <= tolerance, the distance doubled
WithinTolerance(dist2, tol) == dist2 * tol.den <= tol.num

\* result[key] = text on a dict kept in insertion order
RECURSIVE DictSet(_, _, _)
DictSet(dict, key, text) ==
    IF dict = <<>> THEN <<[key |-> key, text |-> text]>>
    ELSE IF Head(dict).key = key THEN <<[key |-> key, text |-> text]>> \o Tail(dict)
    ELSE <<Head(dict)>> \o DictSet(Tail(dict), key, text)

\* pattern is None or pattern.match(text)
PatternMatch(pattern, text) ==
    CASE pattern = "TIME_RE" -> TIME_RE(text)
      [] pattern = "HEBREW_DAYS" -> text \in HEBREW_DAYS_keys
      [] OTHER -> TRUE

\* The day_lookup comprehension: the HEBREW_DAYS letters of the day row
RECURSIVE DayLookup(_)
DayLookup(row_words) ==
    IF row_words = <<>> THEN <<>>
    ELSE LET w == row_words[Len(row_words)]
             rest == DayLookup(SubSeq(row_words, 1, Len(row_words) - 1))
         IN  IF w.text \in HEBREW_DAYS_keys
             THEN DictSet(rest, XCenter2(w), w.text)
             ELSE rest

\* _build_data_lookup(row_words, data_x_min, data_x_max, tolerance, pattern)
RECURSIVE BuildDataLookup(_, _, _, _, _)
BuildDataLookup(row_words, data_x_min, data_x_max, tol, pattern) ==
    IF row_words = <<>> THEN <<>>
    ELSE LET w == row_words[Len(row_words)]
             cx == XCenter2(w)
             rest == BuildDataLookup(SubSeq(row_words, 1, Len(row_words) - 1),
                                     data_x_min, data_x_max, tol, pattern)
         IN  IF \/ (cx < data_x_min /\ ~WithinTolerance(data_x_min - cx, tol))
                \/ (cx > data_x_max /\ ~WithinTolerance(cx - data_x_max, tol))
             THEN rest
             ELSE IF PatternMatch(pattern, w.text)
             THEN DictSet(rest, cx, w.text)
             ELSE rest

\* min(lookup.keys(), key=lambda k: abs(k - x)): the first of the nearest keys
Closest(lookup, x) ==
    LET best == CHOOSE i \in 1..Len(lookup) :
            /\ \A j \in 1..Len(lookup) :
                  Abs(lookup[i].key - x) <= Abs(lookup[j].key - x)
            /\ \A j \in 1..(i - 1) :
                  Abs(lookup[j].key - x) > Abs(lookup[i].key - x)
    IN  lookup[best]

\* _find_closest returning the first key within tolerance, in insertion order
FindClosest_First(lookup, x, tol) ==
    IF \E i \in 1..Len(lookup) : WithinTolerance(Abs(lookup[i].key - x), tol)
    THEN lookup[CHOOSE i \in 1..Len(lookup) :
                    /\ WithinTolerance(Abs(lookup[i].key - x), tol)
                    /\ \A j \in 1..(i - 1) :
                          ~WithinTolerance(Abs(lookup[j].key - x), tol)].text
    ELSE <<>>

\* _find_closest returning the closest value whatever its distance
FindClosest_NoTolerance(lookup, x, tol) ==
    IF lookup = <<>> THEN <<>> ELSE Closest(lookup, x).text

\* _find_closest(lookup, x, tolerance)
FindClosest(lookup, x, tol) ==
    IF lookup = <<>> THEN <<>>
    ELSE LET closest == Closest(lookup, x)
         IN  IF WithinTolerance(Abs(closest.key - x), tol) THEN closest.text
             ELSE <<>>

\* The record of one date column
ColumnRecord(col, tol, day_lk, entry_lk, exit_lk, total_lk, day_type_lk) ==
    LET day_letter == FindClosest(day_lk, col.x, tol)
    IN  [date |-> col.text,
         day |-> HEBREW_DAYS_get(day_letter, day_letter),
         entry |-> FindClosest(entry_lk, col.x, tol),
         exit |-> FindClosest(exit_lk, col.x, tol),
         total |-> FindClosest(total_lk, col.x, tol),
         day_type |-> FindClosest(day_type_lk, col.x, tol)]

\* A word centred at cx, of half-width hw
WordAt(text, cx, hw, y) == Word(text, cx - hw, cx + hw, y)

\* The x-centers the value words of a role row can have: the columns and the
\* midpoints of the date rows below
ValueCenters == <<100, 105, 110, 112, 120, 124, 148>>

DayLetters ==
    << <<"alef">>, <<"bet">>, <<"gimel">>, <<"dalet">>, <<"he">>, <<"vav">>,
       <<"shin">> >>

DayTypeTexts ==
    <<W_avoda, W_hufsha, W_mahala, W_hag, W_hishtalmut, W_mahalat, W_behira>>

Spacings == {10, 24}

\* The x-centers of the date rows: evenly spaced, and one uneven
DateRowCenters ==
    { [i \in 1..n |-> 100 + (i - 1) * s] : s \in Spacings, n \in 3..MaxCols }
        \cup { <<100, 110, 148>> }

DateRowAt(centers, y) ==
    [i \in 1..Len(centers) |-> WordAt(DateText(i, 3), centers[i], 10, y)]

\* The sets of value centers of a role row, as places in ValueCenters
CenterSets == {S \in SUBSET (1..Len(ValueCenters)) : Cardinality(S) <= MaxTokens}

\* The value words of a role row, left to right
TimeValues(S, hh, y) ==
    LET at == SortedSeq(S)
    IN  [i \in 1..Len(at) |-> WordAt(TimeText(hh, at[i]), ValueCenters[at[i]], 10, y)]

LetterValues(S, y) ==
    LET at == SortedSeq(S)
    IN  [i \in 1..Len(at) |-> WordAt(DayLetters[at[i]], ValueCenters[at[i]], 2, y)]

DayTypeValues(S, y) ==
    LET at == SortedSeq(S)
    IN  [i \in 1..Len(at) |-> WordAt(DayTypeTexts[at[i]], ValueCenters[at[i]], 10, y)]

\* The role rows with any value centers: an entry row, with or without a
\* dash in the grid; a day-letter row; a day-type row with its label beside
\* the grid or far from it
VariedRows ==
    { [kind |-> k, at |-> S, opt |-> o] :
        k \in {"entry", "day_type"}, S \in CenterSets, o \in BOOLEAN }
    \cup { [kind |-> "day", at |-> S, opt |-> FALSE] : S \in CenterSets \ {{}} }

\* The other rows of a block, one layout each
FixedRows ==
    { [kind |-> k, at |-> {}, opt |-> FALSE] :
        k \in {"exit", "total", "total2", "entry2", "attendance", "overtime", "day2"} }

RowWordsOf(row, y) ==
    CASE row.kind = "entry" ->
            TimeValues(row.at, 8, y)
            \o (IF row.opt THEN <<WordAt(<<"-">>, 124, 2, y)>> ELSE <<>>)
            \o <<WordAt(L_shaat, 300, 8, y), WordAt(L_knisa, 330, 12, y)>>
      [] row.kind = "day_type" ->
            DayTypeValues(row.at, y)
            \o <<WordAt(L_sug, IF row.opt THEN 156 ELSE 300, 6, y),
                 WordAt(L_yom, IF row.opt THEN 176 ELSE 320, 6, y)>>
      [] row.kind = "day" -> LetterValues(row.at, y)
      [] row.kind = "exit" ->
            TimeValues({1, 3, 5}, 17, y)
            \o <<WordAt(L_shaat, 300, 8, y), WordAt(L_yetzia, 330, 12, y)>>
      [] row.kind = "total" ->
            TimeValues({1, 6, 7}, 9, y)
            \o <<WordAt(L_sahak, 300, 8, y), WordAt(W_nohehut, 330, 12, y)>>
      [] row.kind = "total2" ->
            TimeValues({1, 6, 7}, 10, y)
            \o <<WordAt(L_sahak, 300, 8, y), WordAt(W_nohehut, 330, 12, y)>>
      [] row.kind = "entry2" ->
            TimeValues({1, 3, 5}, 7, y)
            \o <<WordAt(L_shaat, 300, 8, y), WordAt(L_knisa, 330, 12, y)>>
      [] row.kind = "attendance" ->
            DayTypeValues({1, 6}, y) \o <<WordAt(W_nohehut, 300, 12, y)>>
      [] row.kind = "overtime" ->
            TimeValues({1, 3, 5}, 2, y)
            \o <<WordAt(L_shaot, 300, 8, y), WordAt(L_nosafot, 330, 12, y)>>
      [] OTHER -> LetterValues({1, 3, 5}, y)

\* A block as _process_page builds it: a date row, then the rows below it
\* up to the next date row, as (y, row_words) tuples by ascending y
BlockOf(centers, rows) ==
    <<<<50, DateRowAt(centers, 50)>>>>
    \o [i \in 1..Len(rows) |-> <<50 + 10 * i, RowWordsOf(rows[i], 50 + 10 * i)>>]

\* The rows below the date row: none, one role row, a role row and one
\* other row in either order, or two of the other rows
RowInputs ==
    {<<>>}
    \cup { <<r>> : r \in VariedRows }
    \cup { <<r, e>> : r \in VariedRows, e \in FixedRows }
    \cup { <<e, r>> : r \in VariedRows, e \in FixedRows }
    \cup { <<e, f>> : e \in FixedRows, f \in FixedRows }

InitBlock ==
    /\ \E c \in DateRowCenters, rows \in RowInputs : block_rows = BlockOf(c, rows)
    /\ blk_i = 1
    /\ date_row_words = NoRow
    /\ day_row_words = NoRow
    /\ entry_row_words = NoRow
    /\ exit_row_words = NoRow
    /\ total_row_words = NoRow
    /\ day_type_row_words = NoRow
    /\ date_cols = <<>>
    /\ tolerance = [num |-> 0, den |-> 1]
    /\ day_lookup = <<>>
    /\ entry_lookup = <<>>
    /\ exit_lookup = <<>>
    /\ total_lookup = <<>>
    /\ day_type_lookup = <<>>
    /\ col_i = 1
    /\ block_records = <<>>
    /\ blk_pc = "classify"

\* _process_block not running
IdleBlock ==
    /\ block_rows = <<>>
    /\ blk_i = 1
    /\ date_row_words = NoRow
    /\ day_row_words = NoRow
    /\ entry_row_words = NoRow
    /\ exit_row_words = NoRow
    /\ total_row_words = NoRow
    /\ day_type_row_words = NoRow
    /\ date_cols = <<>>
    /\ tolerance = [num |-> 0, den |-> 1]
    /\ day_lookup = <<>>
    /\ entry_lookup = <<>>
    /\ exit_lookup = <<>>
    /\ total_lookup = <<>>
    /\ day_type_lookup = <<>>
    /\ col_i = 1
    /\ block_records = <<>>
    /\ blk_pc = "idle"

\* One iteration of `for _y, row_words in block_rows`
ClassifyRow ==
    /\ blk_pc = "classify"
    /\ blk_i <= Len(block_rows)
    /\ LET row_words == block_rows[blk_i][2]
           role == RowRole(row_words, date_row_words, day_row_words,
                           entry_row_words, exit_row_words, total_row_words,
                           day_type_row_words)
       IN  /\ date_row_words' = IF role = "date" THEN row_words ELSE date_row_words
           /\ day_row_words' = IF role = "day" THEN row_words ELSE day_row_words
           /\ entry_row_words' = IF role = "entry" THEN row_words ELSE entry_row_words
           /\ exit_row_words' = IF role = "exit" THEN row_words ELSE exit_row_words
           /\ total_row_words' = IF role = "total" THEN row_words ELSE total_row_words
           /\ day_type_row_words' =
                 IF role = "day_type" THEN row_words ELSE day_type_row_words
    /\ blk_i' = blk_i + 1
    /\ UNCHANGED <<block_rows, date_cols, tolerance, day_lookup, entry_lookup,
                   exit_lookup, total_lookup, day_type_lookup, col_i,
                   block_records, blk_pc>>
    /\ UNCHANGED <<varsPage, varsDate, varsRows, varsPdf, varsGroup, varsReader, varsNorm, varsApp,
                   log_messages>>

\* After the classification: the two early returns, the date columns, the
\* tolerance and the five lookups
BlockColumns ==
    /\ blk_pc = "classify"
    /\ blk_i > Len(block_rows)
    /\ IF date_row_words = NoRow \/ DateCols(date_row_words) = <<>>
       THEN /\ blk_pc' = "done"
            /\ UNCHANGED <<date_cols, tolerance, day_lookup, entry_lookup,
                           exit_lookup, total_lookup, day_type_lookup>>
       ELSE LET cols == DateCols(date_row_words)
                data_x_min == cols[1].x
                data_x_max == cols[Len(cols)].x
                tol == Tolerance(cols)
            IN  /\ date_cols' = cols
                /\ tolerance' = tol
                /\ day_lookup' = DayLookup(day_row_words)
                /\ entry_lookup' = BuildDataLookup(entry_row_words, data_x_min,
                                                   data_x_max, tol, "TIME_RE")
                /\ exit_lookup' = BuildDataLookup(exit_row_words, data_x_min,
                                                  data_x_max, tol, "TIME_RE")
                /\ total_lookup' = BuildDataLookup(total_row_words, data_x_min,
                                                   data_x_max, tol, "TIME_RE")
                /\ day_type_lookup' = BuildDataLookup(day_type_row_words, data_x_min,
                                                      data_x_max, tol, "None")
                /\ blk_pc' = "bind"
    /\ UNCHANGED <<block_rows, blk_i, date_row_words, day_row_words,
                   entry_row_words, exit_row_words, total_row_words,
                   day_type_row_words, col_i, block_records>>
    /\ UNCHANGED <<varsPage, varsDate, varsRows, varsPdf, varsGroup, varsReader, varsNorm, varsApp,
                   log_messages>>

\* One iteration of `for x, date in date_cols`
BindColumn ==
    /\ blk_pc = "bind"
    /\ col_i <= Len(date_cols)
    /\ block_records' =
          Append(block_records,
                 ColumnRecord(date_cols[col_i], tolerance, day_lookup, entry_lookup,
                              exit_lookup, total_lookup, day_type_lookup))
    /\ col_i' = col_i + 1
    /\ UNCHANGED <<block_rows, blk_i, date_row_words, day_row_words,
                   entry_row_words, exit_row_words, total_row_words,
                   day_type_row_words, date_cols, tolerance, day_lookup,
                   entry_lookup, exit_lookup, total_lookup, day_type_lookup, blk_pc>>
    /\ UNCHANGED <<varsPage, varsDate, varsRows, varsPdf, varsGroup, varsReader, varsNorm, varsApp,
                   log_messages>>

\* `return records`
BlockReturn ==
    /\ blk_pc = "bind"
    /\ col_i > Len(date_cols)
    /\ blk_pc' = "done"
    /\ UNCHANGED <<block_rows, blk_i, date_row_words, day_row_words,
                   entry_row_words, exit_row_words, total_row_words,
                   day_type_row_words, date_cols, tolerance, day_lookup,
                   entry_lookup, exit_lookup, total_lookup, day_type_lookup,
                   col_i, block_records>>
    /\ UNCHANGED <<varsPage, varsDate, varsRows, varsPdf, varsGroup, varsReader, varsNorm, varsApp,
                   log_messages>>

NextBlock == ClassifyRow \/ BlockColumns \/ BindColumn \/ BlockReturn

----------------------------------------------------------------------------
(* attendance_reader._process_page: splitting the sorted rows into blocks *)

\* Words of the rows the page inputs are made of, at vertical position y
DateRowWords(y) ==
    << Word(DateText(1, 3), 100, 120, y), Word(DateText(2, 3), 130, 150, y),
       Word(DateText(3, 3), 160, 180, y) >>

TwoDateRowWords(y) ==
    << Word(DateText(4, 3), 100, 120, y), Word(DateText(5, 3), 130, 150, y),
       Word(TimeText(8, 0), 160, 180, y) >>

TimeRowWords(y) ==
    << Word(TimeText(8, 0), 100, 120, y), Word(TimeText(8, 30), 130, 150, y),
       Word(TimeText(9, 0), 160, 180, y) >>

DayRowWords(y) ==
    << Word(<<"alef">>, 108, 112, y), Word(<<"bet">>, 138, 142, y),
       Word(<<"gimel">>, 168, 172, y) >>

RowKinds == {"date", "twodate", "time", "day"}

RowOfKind(k, y) ==
    CASE k = "date" -> DateRowWords(y)
      [] k = "twodate" -> TwoDateRowWords(y)
      [] k = "time" -> TimeRowWords(y)
      [] OTHER -> DayRowWords(y)

\* The (y, row_words) tuples _group_rows returns, sorted by y
RowsOfKinds(kinds) == [i \in 1..Len(kinds) |-> <<10 * i, RowOfKind(kinds[i], 10 * i)>>]

\* 20 rows with date rows at positions 0 and 12 (1 and 13 counting from 1)
TwentyRowKinds ==
    [i \in 1..20 |-> IF i \in {1, 13} THEN "date"
                     ELSE IF i % 2 = 0 THEN "time" ELSE "day"]

SortedRowInputs ==
    { RowsOfKinds(kinds) :
        kinds \in UNION { [1..n -> RowKinds] : n \in 0..MaxRows } }
    \cup { RowsOfKinds(TwentyRowKinds) }

InitPage ==
    /\ sorted_rows \in SortedRowInputs
    /\ row_i = 1
    /\ blocks = <<>>
    /\ current_block = <<>>
    /\ seg_pc = "scan"

\* The block-splitting loop not running
IdlePage ==
    /\ sorted_rows = <<>>
    /\ row_i = 1
    /\ blocks = <<>>
    /\ current_block = <<>>
    /\ seg_pc = "idle"

\* One iteration of `for y, row_words in sorted_rows`, with the close of the
\* open block left out when a date row is met
SplitRow_NoClose ==
    /\ seg_pc = "scan"
    /\ row_i <= Len(sorted_rows)
    /\ LET row == sorted_rows[row_i]
           texts == Texts(row[2])
       IN  IF IsDateRow(texts)
           THEN /\ blocks' = blocks
                /\ current_block' = <<row>>
           ELSE IF current_block # <<>>
           THEN /\ blocks' = blocks
                /\ current_block' = Append(current_block, row)
           ELSE UNCHANGED <<blocks, current_block>>
    /\ row_i' = row_i + 1
    /\ UNCHANGED <<sorted_rows, seg_pc>>
    /\ UNCHANGED <<varsDate, varsRows, varsPdf, varsGroup, varsBlock, varsReader, varsNorm, varsApp,
                   log_messages>>

\* One iteration of `for y, row_words in sorted_rows`
SplitRow ==
    /\ seg_pc = "scan"
    /\ row_i <= Len(sorted_rows)
    /\ LET row == sorted_rows[row_i]
           texts == Texts(row[2])
       IN  IF IsDateRow(texts)
           THEN /\ blocks' = (IF current_block # <<>>
                              THEN Append(blocks, current_block) ELSE blocks)
                /\ current_block' = <<row>>
           ELSE IF current_block # <<>>
           THEN /\ blocks' = blocks
                /\ current_block' = Append(current_block, row)
           ELSE UNCHANGED <<blocks, current_block>>
    /\ row_i' = row_i + 1
    /\ UNCHANGED <<sorted_rows, seg_pc>>
    /\ UNCHANGED <<varsDate, varsRows, varsPdf, varsGroup, varsBlock, varsReader, varsNorm, varsApp,
                   log_messages>>

\* After the loop: `if current_block: blocks.append(current_block)`
SplitEnd ==
    /\ seg_pc = "scan"
    /\ row_i > Len(sorted_rows)
    /\ blocks' = (IF current_block # <<>>
                  THEN Append(blocks, current_block) ELSE blocks)
    /\ seg_pc' = "done"
    /\ UNCHANGED <<sorted_rows, row_i, current_block>>
    /\ UNCHANGED <<varsDate, varsRows, varsPdf, varsGroup, varsBlock, varsReader, varsNorm, varsApp,
                   log_messages>>

NextPage == SplitRow \/ SplitEnd

----------------------------------------------------------------------------
(* attendance_reader._process_page and extract_attendance_data *)

NoRoles ==
    [date |-> NoRow, day |-> NoRow, entry |-> NoRow, exit |-> NoRow,
     total |-> NoRow, day_type |-> NoRow]

\* The classification loop of _process_block over all the rows of a block
RECURSIVE ClassifyRows(_)
ClassifyRows(rows) ==
    IF rows = <<>> THEN NoRoles
    ELSE LET roles == ClassifyRows(SubSeq(rows, 1, Len(rows) - 1))
             row_words == rows[Len(rows)][2]
             role == RowRole(row_words, roles.date, roles.day, roles.entry,
                             roles.exit, roles.total, roles.day_type)
         IN  IF role = "none" THEN roles ELSE [roles EXCEPT ![role] = row_words]

\* _process_block(block_rows)
ProcessBlock(rows) ==
    LET roles == ClassifyRows(rows)
        cols == DateCols(roles.date)
        tol == Tolerance(cols)
        data_x_min == cols[1].x
        data_x_max == cols[Len(cols)].x
    IN  IF roles.date = NoRow \/ cols = <<>> THEN <<>>
        ELSE [c \in 1..Len(cols) |->
                ColumnRecord(cols[c], tol,
                    DayLookup(roles.day),
                    BuildDataLookup(roles.entry, data_x_min, data_x_max, tol, "TIME_RE"),
                    BuildDataLookup(roles.exit, data_x_min, data_x_max, tol, "TIME_RE"),
                    BuildDataLookup(roles.total, data_x_min, data_x_max, tol, "TIME_RE"),
                    BuildDataLookup(roles.day_type, data_x_min, data_x_max, tol, "None"))]

\* The block-splitting loop of _process_page over all the sorted rows: the
\* closed blocks and the open one
RECURSIVE SplitRows(_)
SplitRows(rows) ==
    IF rows = <<>> THEN [blocks |-> <<>>, current_block |-> <<>>]
    ELSE LET before == SplitRows(SubSeq(rows, 1, Len(rows) - 1))
             row == rows[Len(rows)]
         IN  IF IsDateRow(Texts(row[2]))
             THEN [blocks |-> IF before.current_block # <<>>
                              THEN Append(before.blocks, before.current_block)
                              ELSE before.blocks,
                   current_block |-> <<row>>]
             ELSE IF before.current_block # <<>>
             THEN [before EXCEPT !.current_block = Append(@, row)]
             ELSE before

PageBlocks(rows) ==
    LET split == SplitRows(rows)
    IN  IF split.current_block # <<>>
        THEN Append(split.blocks, split.current_block) ELSE split.blocks

\* records.extend(_process_block(block)) for every block
RECURSIVE BlocksRecords(_)
BlocksRecords(bs) ==
    IF bs = <<>> THEN <<>>
    ELSE BlocksRecords(SubSeq(bs, 1, Len(bs) - 1)) \o ProcessBlock(bs[Len(bs)])

\* _process_page(page), given the words page.extract_words returns
ProcessPage(words) ==
    IF words = <<>> THEN <<>>
    ELSE BlocksRecords(PageBlocks(GroupRows(words)))

\* A page of the PDF: the words extract_words returns, or that it raises
ReaderPage(words, fails) == [words |-> words, fails |-> fails]

\* A page of one block: a header line, three dates, their day letters, entry
\* times and exit times, each value centred on its date
ColumnPageWords ==
    << WordAt(SalaryMonthText(1, 3, 2024), 300, 25, 30),
       WordAt(Id_A, 200, 18, 30) >>
    \o DateRowAt(<<100, 124, 148>>, 50)
    \o LetterValues({1, 6, 7}, 60)
    \o TimeValues({1, 6, 7}, 8, 70)
    \o <<WordAt(L_shaat, 300, 8, 70), WordAt(L_knisa, 330, 12, 70)>>
    \o TimeValues({1, 6, 7}, 17, 80)
    \o <<WordAt(L_shaat, 300, 8, 80), WordAt(L_yetzia, 330, 12, 80)>>

\* The page as extract_attendance_data is given it
ColumnReaderPage == ReaderPage(ColumnPageWords, FALSE)

ReaderPageCatalog ==
    { \* one block: three dates and their entry times
      ReaderPage(DateRowAt(<<100, 124, 148>>, 50)
                 \o RowWordsOf([kind |-> "entry", at |-> {1, 6, 7}, opt |-> FALSE], 60),
                 FALSE),
      \* two blocks: dates and day letters, then dates and exit times
      ReaderPage(DateRowAt(<<100, 110, 120>>, 50)
                 \o RowWordsOf([kind |-> "day2", at |-> {}, opt |-> FALSE], 60)
                 \o DateRowAt(<<100, 110, 120>>, 100)
                 \o RowWordsOf([kind |-> "exit", at |-> {}, opt |-> FALSE], 110),
                 FALSE),
      \* one block under a header line: dates, day letters, entry and exit times
      ColumnReaderPage,
      \* two blocks, the words of the lower one given first and every row
      \* from right to left
      ReaderPage(Reverse(DateRowAt(<<100, 124, 148>>, 50)
                         \o RowWordsOf([kind |-> "entry", at |-> {1, 6, 7}, opt |-> FALSE], 60)
                         \o DateRowAt(<<100, 110, 120, 130>>, 100)
                         \o RowWordsOf([kind |-> "exit", at |-> {}, opt |-> FALSE], 110)),
                 FALSE),
      \* a page with words and no date row
      ReaderPage(RowWordsOf([kind |-> "overtime", at |-> {}, opt |-> FALSE], 60), FALSE),
      \* a page with no word
      ReaderPage(<<>>, FALSE),
      \* a page whose words cannot be extracted
      ReaderPage(<<>>, TRUE) }

InitReader ==
    /\ rd_pages = <<>>
    /\ rd_records = <<>>
    /\ rd_pc = "pages"

\* extract_attendance_data not running
IdleReader ==
    /\ rd_pages = <<>>
    /\ rd_records = <<>>
    /\ rd_pc = "idle"

\* An iteration of `for page in pdf.pages`: records.extend(_process_page(page))
ReadPage(page) ==
    /\ rd_pc = "pages"
    /\ Len(rd_pages) < MaxPages
    /\ ~page.fails
    /\ rd_pages' = Append(rd_pages, page)
    /\ rd_records' = rd_records \o ProcessPage(page.words)
    /\ UNCHANGED rd_pc
    /\ UNCHANGED <<varsPage, varsDate, varsRows, varsPdf, varsGroup, varsBlock, varsNorm, varsApp,
                   log_messages>>

\* An iteration in which page.extract_words raises: nothing in
\* extract_attendance_data catches it, so the exception leaves the function
\* and no record is returned
ReadRaise(page) ==
    /\ rd_pc = "pages"
    /\ Len(rd_pages) < MaxPages
    /\ page.fails
    /\ rd_pages' = Append(rd_pages, page)
    /\ rd_pc' = "raised"
    /\ UNCHANGED rd_records
    /\ UNCHANGED <<varsPage, varsDate, varsRows, varsPdf, varsGroup, varsBlock, varsNorm, varsApp,
                   log_messages>>

\* The PDF has no further page: `return records`
ReadReturn ==
    /\ rd_pc = "pages"
    /\ rd_pc' = "returned"
    /\ UNCHANGED <<rd_pages, rd_records>>
    /\ UNCHANGED <<varsPage, varsDate, varsRows, varsPdf, varsGroup, varsBlock, varsNorm, varsApp,
                   log_messages>>

NextReader ==
    \/ \E page \in ReaderPageCatalog : ReadPage(page)
    \/ \E page \in ReaderPageCatalog : ReadRaise(page)
    \/ ReadReturn

----------------------------------------------------------------------------
(* C9 *)

\* The records of the pages that can be read, in page order
RECURSIVE C9_ReadableRecords(_)
C9_ReadableRecords(pages) ==
    IF pages = <<>> THEN <<>>
    ELSE C9_ReadableRecords(SubSeq(pages, 1, Len(pages) - 1))
         \o (IF pages[Len(pages)].fails THEN <<>>
             ELSE ProcessPage(pages[Len(pages)].words))

\* C9: a page whose extraction fails never aborts the document: after a
\* failing page extract_attendance_data is still reading pages or has
\* returned, and what it has collected is the records of all the other pages.
C9_PageFailureContained ==
    (\E i \in 1..Len(rd_pages) : rd_pages[i].fails) =>
        /\ rd_pc \in {"pages", "returned"}
        /\ rd_records = C9_ReadableRecords(rd_pages)

----------------------------------------------------------------------------
(* The two normalizers: malam_saar_attendance.normalize_hebrew_word and
   attendance_reader_docai.fix_hebrew_text *)

\* attendance_reader_docai.TIME_RE = ^\d{2}:\d{2}(:\d{2})?$
DOCAI_TIME_RE(t) == RE_TIME_TOKEN(t)

\* attendance_reader_docai.DATE_RE = ^\d{2}/\d{2}/(\d{2}|\d{4})$
DOCAI_DATE_RE(t) ==
    /\ Len(t) \in {8, 10}
    /\ t[1] \in DigitChars /\ t[2] \in DigitChars
    /\ t[3] = "/"
    /\ t[4] \in DigitChars /\ t[5] \in DigitChars
    /\ t[6] = "/"
    /\ \A k \in 7..Len(t) : t[k] \in DigitChars

\* fix_hebrew_text(text)
fix_hebrew_text(text) ==
    IF DOCAI_TIME_RE(text) \/ DOCAI_DATE_RE(text) THEN text
    ELSE IF HasHebrew(text) THEN Reverse(text)
    ELSE text

\* The characters short tokens are made of
TokenChars == {"alef", "shin", "1", ":", "/"}

\* Every token of up to MaxTokenLen characters
ShortTokens == UNION { [1..n -> TokenChars] : n \in 0..MaxTokenLen }

\* Longer tokens: times, dates, words, and mixtures of them
LongTokens ==
    { TimeText(8, 0), TimeText(8, 0) \o <<":", "3", "0">>,
      DateText(12, 2), DateText(12, 2) \o <<"/", "2", "4">>,
      DateText(12, 2) \o <<"/", "2", "0", "2", "4">>,
      W_avoda, W_hishtalmut, W_holhamoed, Reverse(W_avoda),
      TimeText(8, 0) \o <<"alef">>, <<"alef">> \o TimeText(8, 0),
      W_avoda \o <<"1", "2">>, <<"1", "2">> \o W_avoda,
      <<"W", "o", "r", "k">>, TimeText(8, 0) \o TimeText(8, 0) }

InitNorm ==
    /\ nz_token \in ShortTokens \cup LongTokens
    /\ nz_word_out = <<>>
    /\ nz_text_out = <<>>

\* No normalizer running
IdleNorm ==
    /\ nz_token = <<"idle">>
    /\ nz_word_out = <<>>
    /\ nz_text_out = <<>>

\* normalize_hebrew_word applied to the token, then to its own result
CallNormalizeHebrewWord ==
    /\ nz_token # <<"idle">>
    /\ Len(nz_word_out) < 2
    /\ nz_word_out' =
          Append(nz_word_out,
                 normalize_hebrew_word(IF nz_word_out = <<>> THEN nz_token
                                       ELSE nz_word_out[Len(nz_word_out)]))
    /\ UNCHANGED <<nz_token, nz_text_out>>
    /\ UNCHANGED <<varsPage, varsDate, varsRows, varsPdf, varsGroup, varsBlock,
                   varsReader, varsApp,
                   log_messages>>

\* fix_hebrew_text applied to the token, then to its own result
CallFixHebrewText ==
    /\ nz_token # <<"idle">>
    /\ Len(nz_text_out) < 2
    /\ nz_text_out' =
          Append(nz_text_out,
                 fix_hebrew_text(IF nz_text_out = <<>> THEN nz_token
                                 ELSE nz_text_out[Len(nz_text_out)]))
    /\ UNCHANGED <<nz_token, nz_word_out>>
    /\ UNCHANGED <<varsPage, varsDate, varsRows, varsPdf, varsGroup, varsBlock,
                   varsReader, varsApp,
                   log_messages>>

NextNorm == CallNormalizeHebrewWord \/ CallFixHebrewText

----------------------------------------------------------------------------
(* C15 *)

C15_Digit(c) == c \in {"0", "1", "2", "3", "4", "5", "6", "7", "8", "9"}

\* HH:MM or HH:MM:SS
C15_TimeToken(t) ==
    /\ Len(t) \in {5, 8}
    /\ \A k \in 1..Len(t) : IF k \in {3, 6} THEN t[k] = ":" ELSE C15_Digit(t[k])

\* DD/MM or DD/MM/YYYY
C15_DateToken(t) ==
    /\ Len(t) \in {5, 10}
    /\ \A k \in 1..Len(t) : IF k \in {3, 6} THEN t[k] = "/" ELSE C15_Digit(t[k])

\* Script text with no digits: Hebrew letters only
C15_Script(t) == t # <<>> /\ \A k \in 1..Len(t) : t[k] \in HebrewChars

C15_Mirror(t) == [k \in 1..Len(t) |-> t[Len(t) + 1 - k]]

\* C15: with either normalizer, applying it twice gives the token back;
\* script text with no digits is reversed by the first application and
\* restored by the second; a time token and a date token are returned
\* unchanged by each application.
C15_RoundTrip ==
    \A out \in {nz_word_out, nz_text_out} :
        /\ Len(out) = 2 => out[2] = nz_token
        /\ C15_Script(nz_token) =>
              /\ Len(out) >= 1 => out[1] = C15_Mirror(nz_token)
              /\ Len(out) = 2 => out[2] = nz_token
        /\ (C15_TimeToken(nz_token) \/ C15_DateToken(nz_token)) =>
              \A k \in 1..Len(out) : out[k] = nz_token

\* A word that is not its own mirror image, normalized twice by both
C15_Witness ==
    /\ nz_token = W_avoda
    /\ nz_word_out = <<Reverse(W_avoda), W_avoda>>
    /\ nz_text_out = <<Reverse(W_avoda), W_avoda>>

----------------------------------------------------------------------------
(* The three desktop applications: AttendanceApp of malam_saar_attendance
   ("fixed_range"), AttendanceApp of attendance_reader ("adaptive") and
   AttendanceDocAIApp of attendance_reader_docai ("docai"). The foreground
   loop is Tk's main loop; every conversion runs on a thread of its own. *)

AppVariants == {"fixed_range", "adaptive", "docai"}

\* The exception classes the first except clause of every worker names
FileErrors == {"FileNotFoundError", "PermissionError", "OSError"}

\* The classes the second except clause of _export_worker names
ExportWorkerOthers == {"ValueError", "RuntimeError", "AttributeError", "KeyError"}

\* The exceptions raised in a worker in the model
RaisedClasses == {"PermissionError", "RuntimeError", "TypeError"}

\* The message the except clauses of a worker pass to _on_error for an
\* exception of class cls, "uncaught" when no clause names the class
Caught(variant, cls) ==
    IF cls \in FileErrors THEN "file_error"
    ELSE IF variant = "fixed_range"
    THEN (IF cls \in ExportWorkerOthers THEN "class_and_message" ELSE "uncaught")
    ELSE IF variant = "adaptive" THEN "message"
    ELSE IF cls = "RuntimeError" THEN "message"
    ELSE "class_and_message"

\* A worker thread at its start
NewWorker(variant) ==
    [ pc |-> IF variant = "docai" THEN "config" ELSE "process",
      blob_name |-> "None", config |-> FALSE, named |-> FALSE,
      deletes |-> 0, posted |-> 0 ]

\* Where a worker goes after its try / except: the finally clause of the
\* Document AI worker, the end of the thread for the others
AfterTry(variant) == IF variant = "docai" THEN "finally" ELSE "ended"

\* The messages worker w has passed to _log
LoggedBy(w) == SelectSeq(logged, LAMBDA m : m.worker = w)

InitApp ==
    /\ app \in AppVariants
    /\ btn_enabled = TRUE
    /\ workers = <<>>
    /\ tk_events = <<>>
    /\ delivered = <<>>
    /\ poll_timers = 0
    /\ log_box = <<>>
    /\ logged = <<>>
    /\ log_messages = <<>>

\* No application running
IdleApp ==
    /\ app = "none"
    /\ btn_enabled = FALSE
    /\ workers = <<>>
    /\ tk_events = <<>>
    /\ delivered = <<>>
    /\ poll_timers = 0
    /\ log_box = <<>>
    /\ logged = <<>>

\* _start_export / _start_conversion, called by the button when it is
\* enabled, with a file that exists and, where it is asked, an output name:
\* the button is disabled and the thread started; _start_export also clears
\* _log_messages and calls _poll_logs, which schedules itself
StartConversion ==
    /\ app \in AppVariants
    /\ btn_enabled
    /\ Len(workers) < MaxExports
    /\ btn_enabled' = FALSE
    /\ workers' = Append(workers, NewWorker(app))
    /\ IF app = "fixed_range"
       THEN /\ log_messages' = <<>>
            /\ poll_timers' = poll_timers + 1
       ELSE UNCHANGED <<log_messages, poll_timers>>
    /\ UNCHANGED <<app, tk_events, delivered, log_box, logged>>
    /\ UNCHANGED <<varsPage, varsDate, varsRows, varsPdf, varsGroup, varsBlock,
                   varsReader, varsNorm>>

\* A _poll_logs timer fires: _log_messages is drained into the log box and
\* the timer scheduled again
PollLogs ==
    /\ poll_timers >= 1
    /\ log_box' = log_box \o log_messages
    /\ log_messages' = <<>>
    /\ UNCHANGED <<app, btn_enabled, workers, tk_events, delivered, poll_timers,
                   logged>>
    /\ UNCHANGED <<varsPage, varsDate, varsRows, varsPdf, varsGroup, varsBlock,
                   varsReader, varsNorm>>

\* The foreground loop runs the next after(0, ...) callback, _on_success or
\* _on_error: the button is enabled again; the fixed-range application also
\* appends a line to the log box
RunCallback ==
    /\ tk_events # <<>>
    /\ btn_enabled' = TRUE
    /\ delivered' = Append(delivered, Head(tk_events))
    /\ tk_events' = Tail(tk_events)
    /\ log_box' = IF app = "fixed_range"
                  THEN Append(log_box, [ kind |-> "status",
                                         worker |-> Head(tk_events).worker,
                                         n |-> 0 ])
                  ELSE log_box
    /\ UNCHANGED <<app, workers, poll_timers, logged, log_messages>>
    /\ UNCHANGED <<varsPage, varsDate, varsRows, varsPdf, varsGroup, varsBlock,
                   varsReader, varsNorm>>

\* What a worker step leaves alone
WorkerFrame ==
    /\ UNCHANGED <<app, btn_enabled, delivered, poll_timers, log_box>>
    /\ UNCHANGED <<varsPage, varsDate, varsRows, varsPdf, varsGroup, varsBlock,
                   varsReader, varsNorm>>

\* self.after(0, self._on_success, ...) or self.after(0, self._on_error, ...)
\* by worker w, which then goes to pc
Post(w, kind, reason, pc) ==
    /\ tk_events' = Append(tk_events, [kind |-> kind, reason |-> reason, worker |-> w])
    /\ workers' = [workers EXCEPT ![w].pc = pc, ![w].posted = @ + 1]

\* An exception of class cls raised inside the try of worker w
Raise(w, cls) ==
    IF Caught(app, cls) = "uncaught"
    THEN /\ workers' = [workers EXCEPT ![w].pc = AfterTry(app)]
         /\ UNCHANGED tk_events
    ELSE Post(w, "error", Caught(app, cls), AfterTry(app))

\* process_pdf calls _log on the worker thread
WorkerLog(w) ==
    /\ app = "fixed_range"
    /\ workers[w].pc = "process"
    /\ Len(LoggedBy(w)) < MaxLogs
    /\ LET m == [kind |-> "log", worker |-> w, n |-> Len(LoggedBy(w)) + 1]
       IN  /\ log_messages' = Append(log_messages, m)
           /\ logged' = Append(logged, m)
    /\ UNCHANGED <<workers, tk_events>>
    /\ WorkerFrame

\* process_pdf / extract_attendance_data returns records, returns none, or
\* raises
ProcessPdf(w, result) ==
    /\ app \in {"fixed_range", "adaptive"}
    /\ workers[w].pc = "process"
    /\ IF result = "records"
       THEN /\ workers' = [workers EXCEPT ![w].pc = "excel"]
            /\ UNCHANGED tk_events
       ELSE IF result = "empty"
       THEN Post(w, "error", "no_records", "ended")
       ELSE Raise(w, result)
    /\ UNCHANGED <<logged, log_messages>>
    /\ WorkerFrame

\* create_excel returns or raises; after it the worker posts _on_success
CreateExcel(w, result) ==
    /\ workers[w].pc = "excel"
    /\ IF result = "ok"
       THEN Post(w, "success", "none", AfterTry(app))
       ELSE Raise(w, result)
    /\ UNCHANGED <<logged, log_messages>>
    /\ WorkerFrame

\* Steps 1 and 2 of the Document AI worker up to the upload: _load_config,
\* which raises RuntimeError when a value is missing, then the blob name
LoadConfig(w, result) ==
    /\ app = "docai"
    /\ workers[w].pc = "config"
    /\ IF result = "ok"
       THEN /\ workers' = [workers EXCEPT ![w].pc = "upload", ![w].config = TRUE,
                                          ![w].blob_name = "blob",
                                          ![w].named = TRUE]
            /\ UNCHANGED tk_events
       ELSE Raise(w, "RuntimeError")
    /\ UNCHANGED <<logged, log_messages>>
    /\ WorkerFrame

\* upload_to_gcs returns or raises
UploadToGcs(w, result) ==
    /\ workers[w].pc = "upload"
    /\ IF result = "ok"
       THEN /\ workers' = [workers EXCEPT ![w].pc = "batch"]
            /\ UNCHANGED tk_events
       ELSE Raise(w, result)
    /\ UNCHANGED <<logged, log_messages>>
    /\ WorkerFrame

\* run_batch_process returns or raises
RunBatchProcess(w, result) ==
    /\ workers[w].pc = "batch"
    /\ IF result = "ok"
       THEN /\ workers' = [workers EXCEPT ![w].pc = "parse"]
            /\ UNCHANGED tk_events
       ELSE Raise(w, result)
    /\ UNCHANGED <<logged, log_messages>>
    /\ WorkerFrame

\* parse_docai_results returns or raises; when it returns, step 5 deletes the
\* uploaded blob and forgets its name, and with no records _on_error is posted
ParseDocaiResults(w, result) ==
    /\ workers[w].pc = "parse"
    /\ IF result = "records"
       THEN /\ workers' = [workers EXCEPT ![w].pc = "excel", ![w].deletes = @ + 1,
                                          ![w].blob_name = "None"]
            /\ UNCHANGED tk_events
       ELSE IF result = "empty"
       THEN /\ tk_events' = Append(tk_events, [ kind |-> "error",
                                                reason |-> "no_records",
                                                worker |-> w ])
            /\ workers' = [workers EXCEPT ![w].pc = "finally", ![w].posted = @ + 1,
                                          ![w].deletes = @ + 1,
                                          ![w].blob_name = "None"]
       ELSE Raise(w, result)
    /\ UNCHANGED <<logged, log_messages>>
    /\ WorkerFrame

\* The finally clause with the test of blob_name left out
Finally_Always(w) ==
    /\ workers[w].pc = "finally"
    /\ workers' = [workers EXCEPT ![w].pc = "ended", ![w].deletes = @ + 1]
    /\ UNCHANGED <<tk_events, logged, log_messages>>
    /\ WorkerFrame

\* The finally clause of the Document AI worker: delete_from_gcs when a blob
\* name is still held
Finally(w) ==
    /\ workers[w].pc = "finally"
    /\ workers' = [workers EXCEPT
                      ![w].pc = "ended",
                      ![w].deletes = IF workers[w].blob_name # "None" /\ workers[w].config
                                     THEN @ + 1 ELSE @]
    /\ UNCHANGED <<tk_events, logged, log_messages>>
    /\ WorkerFrame

NextApp ==
    \/ StartConversion
    \/ PollLogs
    \/ RunCallback
    \/ \E w \in 1..Len(workers) : WorkerLog(w)
    \/ \E w \in 1..Len(workers), result \in {"records", "empty"} \cup RaisedClasses :
          ProcessPdf(w, result)
    \/ \E w \in 1..Len(workers), result \in {"ok"} \cup RaisedClasses :
          CreateExcel(w, result)
    \/ \E w \in 1..Len(workers), result \in {"ok", "missing"} : LoadConfig(w, result)
    \/ \E w \in 1..Len(workers), result \in {"ok"} \cup RaisedClasses :
          UploadToGcs(w, result)
    \/ \E w \in 1..Len(workers), result \in {"ok"} \cup RaisedClasses :
          RunBatchProcess(w, result)
    \/ \E w \in 1..Len(workers), result \in {"records", "empty"} \cup RaisedClasses :
          ParseDocaiResults(w, result)
    \/ \E w \in 1..Len(workers) : Finally(w)

----------------------------------------------------------------------------
(* C1 *)

RECURSIVE Flatten(_)
Flatten(bs) == IF bs = <<>> THEN <<>> ELSE Head(bs) \o Flatten(Tail(bs))

C1_HasThreeDates(row) ==
    Cardinality({i \in 1..Len(row[2]) : DATE_RE(row[2][i].text)}) >= 3

C1_DatePositions == {i \in 1..Len(sorted_rows) : C1_HasThreeDates(sorted_rows[i])}

C1_FirstDate ==
    IF C1_DatePositions = {} THEN Len(sorted_rows) + 1
    ELSE CHOOSE i \in C1_DatePositions : \A j \in C1_DatePositions : i <= j

\* C1: when the split of a page's ordered rows is done, there are as many
\* blocks as date rows, every block is one date row followed only by
\* non-date rows, and the blocks laid end to end are exactly the rows from
\* the first date row to the last row, in their original order (so the rows
\* before the first date row are in no block).
C1_BlockSegmentation ==
    seg_pc = "done" =>
        /\ Len(blocks) = Cardinality(C1_DatePositions)
        /\ \A b \in 1..Len(blocks) :
              /\ Len(blocks[b]) >= 1
              /\ C1_HasThreeDates(blocks[b][1])
              /\ \A k \in 2..Len(blocks[b]) : ~C1_HasThreeDates(blocks[b][k])
        /\ Flatten(blocks) = SubSeq(sorted_rows, C1_FirstDate, Len(sorted_rows))

\* 20 rows with date rows first and thirteenth: two blocks of 12 and 8 rows
C1_Witness ==
    /\ seg_pc = "done"
    /\ Len(sorted_rows) = 20
    /\ Len(blocks) = 2
    /\ blocks[1] = SubSeq(sorted_rows, 1, 12)
    /\ blocks[2] = SubSeq(sorted_rows, 13, 20)

----------------------------------------------------------------------------
(* C8 *)

\* A token that is a DD/MM date placed in the date column
C8_DateToken(w) == DATE_RE(w.text) /\ 795 <= w.x0 /\ w.x0 <= 830

C8_Rows == GroupByY(rows_words)

\* The rows (buckets) that hold a date token, top to bottom
C8_DataRows ==
    SortedSeq({b \in DOMAIN C8_Rows :
                 \E i \in 1..Len(C8_Rows[b]) : C8_DateToken(C8_Rows[b][i])})

C8_Day(w) == IntOf(SubSeq(w.text, 1, 2))

C8_Month(w) == IntOf(SubSeq(w.text, 4, 5))

C8_SalaryYear == IntOf(SubSeq(rows_salary_month, 7, 10))

C8_SalaryMonth == IntOf(SubSeq(rows_salary_month, 4, 5))

C8_Year(w) ==
    IF C8_Month(w) <= C8_SalaryMonth THEN C8_SalaryYear ELSE C8_SalaryYear - 1

\* The token names no calendar day of the resolved year
C8_Invalid(w) ==
    \/ C8_Month(w) \notin 1..12
    \/ C8_Day(w) < 1
    \/ C8_Day(w) > 31
    \/ C8_Month(w) \in {4, 6, 9, 11} /\ C8_Day(w) > 30
    \/ C8_Month(w) = 2 /\ C8_Day(w) > 29
    \/ C8_Month(w) = 2 /\ C8_Day(w) = 29
       /\ ~((C8_Year(w) % 4 = 0 /\ C8_Year(w) % 100 # 0) \/ C8_Year(w) % 400 = 0)

\* C8: when _parse_data_rows returns, every row holding a date token has
\* given exactly one record, in row order, and the record of a row whose
\* date tokens name no calendar day of the resolved year has a null full
\* date: such a row is not dropped.
C8_InvalidDateKept ==
    rows_pc = "returned" =>
        /\ Len(rows_records) = Len(C8_DataRows)
        /\ \A k \in 1..Len(C8_DataRows) :
              LET row == C8_Rows[C8_DataRows[k]]
              IN  (\A i \in 1..Len(row) :
                      C8_DateToken(row[i]) => C8_Invalid(row[i]))
                  => rows_records[k].full_date = NoDate

\* A page with the rows 31/04 and 31/13 returns two records with null dates
C8_Witness ==
    /\ rows_pc = "returned"
    /\ rows_words = <<Tok(DateText(31, 4), 800, 100), Tok(DateText(31, 13), 796, 108)>>
    /\ Len(rows_records) = 2
    /\ rows_records[1].full_date = NoDate
    /\ rows_records[2].full_date = NoDate

----------------------------------------------------------------------------
(* C2 *)

C2_Initial(f) == IF f = "salary_month" THEN SalaryMonthText(1, 1, 1900) ELSE <<>>

\* The pages up to page n whose text was read and holds a value for field f
C2_AnyPageWith(f, n) ==
    {j \in 1..n : /\ pdf_pages[j].fails # "extract_text"
                  /\ pdf_pages[j].text[f] # <<>>}

\* Those of them that bear the data-page marker
C2_DataPageWith(f, n) == {j \in C2_AnyPageWith(f, n) : pdf_pages[j].text.marker}

C2_Last(S) == CHOOSE j \in S : \A k \in S : k <= j

\* What a record shows of a header value: the salary month as MM/YYYY
C2_Shown(f, value) ==
    IF f = "salary_month" THEN SubSeq(value, 4, Len(value)) ELSE value

\* C2 as stated: each header field of a record is the most recent non-empty
\* value of that field seen on any page up to and including the record's page.
C2_AsStated ==
    \A i \in 1..Len(all_records) : \A f \in HeaderFields :
        C2_AnyPageWith(f, record_page[i]) # {} =>
            all_records[i][f] =
                C2_Shown(f, pdf_pages[C2_Last(C2_AnyPageWith(f, record_page[i]))].text[f])

C2_MostRecent(f, n) ==
    IF C2_DataPageWith(f, n) = {} THEN C2_Initial(f)
    ELSE pdf_pages[C2_Last(C2_DataPageWith(f, n))].text[f]

\* C2 amended: after any sequence of pages, each header field of the carried
\* context is the most recent non-empty value of that field on a page that
\* bears the data-page marker and whose text was read (its initial value when
\* there is none), so it is overwritten only by such a page supplying a
\* non-empty value; and each header field of a record is that value as of the
\* record's page, the salary month in its MM/YYYY form.
C2_CarryForward ==
    /\ \A f \in HeaderFields : current_employee[f] = C2_MostRecent(f, page_num)
    /\ \A i \in 1..Len(all_records) : \A f \in HeaderFields :
          all_records[i][f] = C2_Shown(f, C2_MostRecent(f, record_page[i]))

\* A record of page 2, which names no employee, carries the id of page 1
C2_Witness ==
    /\ page_num >= 2
    /\ pdf_pages[1].text.employee_id = Id_A
    /\ pdf_pages[2].text.employee_id = <<>>
    /\ \E i \in 1..Len(all_records) :
          record_page[i] = 2 /\ all_records[i].employee_id = Id_A

----------------------------------------------------------------------------
(* C3, C4, C5: adaptive column binding *)

BindingRoles == {"day", "entry", "exit", "total", "day_type"}

\* The row the classification gave to a role
RoleRowWords(role) ==
    CASE role = "day" -> day_row_words
      [] role = "entry" -> entry_row_words
      [] role = "exit" -> exit_row_words
      [] role = "total" -> total_row_words
      [] OTHER -> day_type_row_words

\* The places in its row of the words that can be a role's value: day
\* letters for the day role, HH:MM for the three time roles, any word for
\* the day type
RoleCandidates(role) ==
    LET row == RoleRowWords(role)
    IN  {i \in 1..Len(row) :
            CASE role = "day" -> row[i].text \in HEBREW_DAYS_keys
              [] role \in {"entry", "exit", "total"} -> TIME_RE(row[i].text)
              [] OTHER -> TRUE}

\* The value of a role in a record
RoleValue(role, rec) ==
    CASE role = "day" -> rec.day
      [] role = "entry" -> rec.entry
      [] role = "exit" -> rec.exit
      [] role = "total" -> rec.total
      [] OTHER -> rec.day_type

\* How a record shows a bound word: a day letter as its day name
RoleShown(role, text) ==
    IF role = "day" THEN HEBREW_DAYS_get(text, text) ELSE text

\* The doubled distance of a word of a role's row from a column
ColumnDistance(role, i, c) == Abs(XCenter2(RoleRowWords(role)[i]) - date_cols[c].x)

\* The date words of the block's date row
DateWords ==
    IF block_rows = <<>> THEN {}
    ELSE {i \in 1..Len(block_rows[1][2]) : DATE_RE(block_rows[1][2][i].text)}

\* distance <= max(0.45 * average spacing, 10), or 15 for a single column,
\* from the date words of the block; the distance doubled
InTolerance(dist2) ==
    LET xs == {XCenter2(block_rows[1][2][i]) : i \in DateWords}
        hi == CHOOSE x \in xs : \A y \in xs : y <= x
        lo == CHOOSE x \in xs : \A y \in xs : x <= y
        n == Cardinality(DateWords)
    IN  IF n = 1 THEN dist2 <= 30
        ELSE dist2 <= 20 \/ dist2 * 100 * (n - 1) <= 45 * (hi - lo)

\* C3: there is one record per date word of the date row, in ascending
\* x-center order, and for every date column and every role the value bound
\* is the text of a role-row value word whose x-center is nearest to the
\* column's x-center (a day letter shown as its day name) when that distance
\* is at most max(0.45 x average column spacing, 10), 15 for a single
\* column, and is empty otherwise.
C3_AdaptiveBinding ==
    /\ blk_pc = "done" =>
          /\ Len(block_records) = Cardinality(DateWords)
          /\ \A c \in 1..Len(block_records) :
                \E i \in DateWords :
                    /\ XCenter2(block_rows[1][2][i]) = date_cols[c].x
                    /\ block_rows[1][2][i].text = block_records[c].date
          /\ \A c \in 1..(Len(block_records) - 1) :
                date_cols[c].x <= date_cols[c + 1].x
    /\ \A c \in 1..Len(block_records) :
          \A role \in BindingRoles :
              LET cand == RoleCandidates(role)
                  value == RoleValue(role, block_records[c])
              IN  IF \E i \in cand : InTolerance(ColumnDistance(role, i, c))
                  THEN \E i \in cand :
                          /\ \A j \in cand :
                                ColumnDistance(role, i, c) <= ColumnDistance(role, j, c)
                          /\ value = RoleShown(role, RoleRowWords(role)[i].text)
                  ELSE value = <<>>

\* Columns at 100, 124, 148 and one entry time at 120: the middle column
\* gets it from 4 away, the outer columns get nothing
C3_Witness ==
    /\ blk_pc = "done"
    /\ Len(block_records) = 3
    /\ date_cols[1].x = 200 /\ date_cols[2].x = 248 /\ date_cols[3].x = 296
    /\ Cardinality(RoleCandidates("entry")) = 1
    /\ block_records[1].entry = <<>>
    /\ block_records[2].entry = TimeText(8, 5)
    /\ block_records[3].entry = <<>>

\* The date columns are evenly spaced, 10 or more apart
EvenlySpaced ==
    /\ Len(date_cols) >= 2
    /\ date_cols[2].x - date_cols[1].x >= 20
    /\ \A c \in 1..(Len(date_cols) - 1) :
          date_cols[c + 1].x - date_cols[c].x = date_cols[2].x - date_cols[1].x

\* The value words of a role in the column grid: the candidates from the
\* first column less the tolerance to the last column plus the tolerance
GridValues(role) ==
    {i \in RoleCandidates(role) :
        LET cx == XCenter2(RoleRowWords(role)[i])
            lo == date_cols[1].x
            hi == date_cols[Len(date_cols)].x
        IN  /\ (cx < lo => InTolerance(lo - cx))
            /\ (cx > hi => InTolerance(cx - hi))}

\* A role's row has exactly one value word per column, centred on it
AlignedRole(role) ==
    /\ RoleRowWords(role) # NoRow
    /\ Cardinality(GridValues(role)) = Len(date_cols)
    /\ \A c \in 1..Len(date_cols) :
          \E i \in GridValues(role) : ColumnDistance(role, i, c) = 0

\* C4: with N date columns evenly spaced 10 or more apart and a role row
\* with exactly N value words in the grid, centred on those columns, every
\* column's record has, for that role, the text of the word centred on the
\* column (a day letter shown as its day name), and none is empty.
C4_AlignedBinding ==
    (blk_pc = "done" /\ EvenlySpaced) =>
        \A role \in BindingRoles :
            AlignedRole(role) =>
                /\ Len(block_records) = Len(date_cols)
                /\ \A c \in 1..Len(date_cols) :
                      /\ RoleValue(role, block_records[c]) # <<>>
                      /\ \E i \in GridValues(role) :
                            /\ ColumnDistance(role, i, c) = 0
                            /\ RoleValue(role, block_records[c])
                                  = RoleShown(role, RoleRowWords(role)[i].text)

\* Columns 10 apart, at the tolerance floor, and the three entry times
\* centred on them
C4_Witness ==
    /\ blk_pc = "done"
    /\ EvenlySpaced
    /\ date_cols[2].x - date_cols[1].x = 20
    /\ AlignedRole("entry")
    /\ Len(block_records) = 3
    /\ block_records[1].entry = TimeText(8, 1)
    /\ block_records[2].entry = TimeText(8, 3)
    /\ block_records[3].entry = TimeText(8, 5)

\* A value word of a role is exactly midway between columns c and c + 1 and
\* farther than the tolerance from both
MidpointBeyond(role, i, c) ==
    /\ 2 * XCenter2(RoleRowWords(role)[i]) = date_cols[c].x + date_cols[c + 1].x
    /\ ~InTolerance(ColumnDistance(role, i, c))
    /\ ~InTolerance(ColumnDistance(role, i, c + 1))

\* C5: a value word exactly midway between two adjacent date columns and
\* farther than the tolerance from both is bound to neither: neither
\* column's record has its text for that role, and each of the two columns
\* with no other value word of the role within the tolerance has an empty
\* value for the role.
C5_MidpointUnbound ==
    \A role \in BindingRoles :
        \A c \in 1..(Len(block_records) - 1) :
            \A i \in RoleCandidates(role) :
                MidpointBeyond(role, i, c) =>
                    \A cc \in {c, c + 1} :
                        LET value == RoleValue(role, block_records[cc])
                        IN  /\ value # RoleShown(role, RoleRowWords(role)[i].text)
                            /\ (\A j \in RoleCandidates(role) :
                                    ~InTolerance(ColumnDistance(role, j, cc)))
                               => value = <<>>

\* Columns at 100 and 124 and a single entry time at 112
C5_Witness ==
    /\ blk_pc = "done"
    /\ Len(block_records) >= 2
    /\ RoleCandidates("entry") # {}
    /\ \A i \in RoleCandidates("entry") : MidpointBeyond("entry", i, 1)
    /\ block_records[1].entry = <<>>
    /\ block_records[2].entry = <<>>

----------------------------------------------------------------------------
(* C11 *)

\* The rows of the block the classification loop has gone through
C11_Classified == 1..(blk_i - 1)

\* The roles whose variable holds row k of the block
C11_RolesOf(k) ==
    {role \in BindingRoles : RoleRowWords(role) = block_rows[k][2]}

\* Row k is a candidate for a role: three day letters for the day role; for
\* the others the role's label in the row label, the role being the first
\* of entry, exit, total, day type whose label is there
C11_Candidate(role, k) ==
    LET row_words == block_rows[k][2]
        label == RowLabel(row_words)
        entry == Contains(label, L_shaat \o Sp \o L_knisa)
        exit == Contains(label, L_shaat \o Sp \o L_yetzia)
        total == /\ Contains(label, <<"samekh", "he">>)
                 /\ Contains(label, <<"nun", "vav", "kaf", "het">>)
        day_type == \/ Contains(label, L_sug \o Sp \o L_yom)
                    \/ Contains(label, W_nohehut)
    IN  /\ ~IsDateRow(Texts(row_words))
        /\ IF IsDayRow(Texts(row_words)) THEN role = "day"
           ELSE CASE role = "entry" -> entry
                  [] role = "exit" -> ~entry /\ exit
                  [] role = "total" -> ~entry /\ ~exit /\ total
                  [] role = "day_type" -> ~entry /\ ~exit /\ ~total /\ day_type
                  [] OTHER -> FALSE

\* C11: each non-date row of a block is the row of at most one role, and a
\* row that is a candidate for a role which an earlier row already holds is
\* the row of no role.
C11_FirstMatchWins ==
    \A k \in C11_Classified :
        /\ Cardinality(C11_RolesOf(k)) <= 1
        /\ \A role \in BindingRoles :
              (/\ C11_Candidate(role, k)
               /\ \E j \in 1..(k - 1) : role \in C11_RolesOf(j))
              => C11_RolesOf(k) = {}

----------------------------------------------------------------------------
(* C12 *)

\* The two activities of the null category: "no report filed" and "no
\* standard hours"
C12_NullCategory ==
    { <<"alef", "yod", "nun_f", " ", "dalet", "yod", "vav", "vav", "het", " ",
        "nun", "vav", "kaf", "het", "vav", "tav">>,
      <<"lamed", "lamed", "alef", " ", "tav", "qof", "nun_f", " ",
        "ayin", "bet", "vav", "dalet", "he">> }

\* The time, overtime, shift-bonus and deduction fields of a record
C12_TimeFields ==
    {"entry_actual", "exit_actual", "total_present_hours", "entry_for_pay",
     "exit_for_pay", "total_for_pay_hours", "standard_hours", "ot_100",
     "ot_125", "ot_150", "ot_200", "shift_bonus_87", "shift_bonus_50",
     "shift_bonus_20", "deduction"}

\* C12: every record of a row whose raw activity (the one logged for the
\* row) is in the null category has None in every time, overtime,
\* shift-bonus and deduction field, whatever words fell into those columns.
C12_NullActivityBlanks ==
    /\ Len(log_messages) = Len(rows_records)
    /\ \A i \in 1..Len(rows_records) :
          log_messages[i].activity_raw \in C12_NullCategory =>
              \A f \in C12_TimeFields : rows_records[i][f] = None

\* A "no standard hours" line with an entry time and an overtime value
C12_Witness ==
    /\ rows_pc = "returned"
    /\ Len(rows_records) = 1
    /\ log_messages[1].activity_raw = W_lelo \o Sp \o W_teken \o Sp \o W_avoda
    /\ \E i, j \in 1..Len(rows_words) :
          /\ rows_words[i].x0 = 710 /\ rows_words[i].text = TimeText(8, 0)
          /\ rows_words[j].x0 = 400
    /\ rows_records[1].entry_actual = None
    /\ rows_records[1].ot_100 = None

----------------------------------------------------------------------------
(* C13 *)

\* The raw activity logged for the row of record i
C13_Raw(i) == log_messages[i].activity_raw

\* C13: the day_type of a record is the category the table gives for the
\* row's raw activity when the raw activity is a key of the table, and the
\* raw activity itself, unchanged, when it is not; a raw activity that is
\* not empty never gives an empty day_type.
C13_ActivityPassThrough ==
    /\ Len(log_messages) = Len(rows_records)
    /\ \A i \in 1..Len(rows_records) :
          /\ \A p \in ACTIVITY_MAP :
                p[1] = C13_Raw(i) => rows_records[i].day_type = p[2]
          /\ (\A p \in ACTIVITY_MAP : p[1] # C13_Raw(i))
                => rows_records[i].day_type = C13_Raw(i)
          /\ C13_Raw(i) # <<>> => rows_records[i].day_type # <<>>

\* A line whose activity, two words, is no key of the table although its
\* first word is
C13_Witness ==
    /\ rows_pc = "returned"
    /\ Len(rows_records) = 1
    /\ C13_Raw(1) = W_mahala \o Sp \o W_zug
    /\ rows_records[1].day_type = W_mahala \o Sp \o W_zug

----------------------------------------------------------------------------
(* C14 *)

\* The first 5 characters of a text of 10 or more are two digits, a colon
\* and two digits
C14_Merged(t) ==
    /\ Len(t) >= 10
    /\ \A k \in {1, 2, 4, 5} :
          t[k] \in {"0", "1", "2", "3", "4", "5", "6", "7", "8", "9"}
    /\ t[3] = ":"

C14_Split(t) == IF C14_Merged(t) THEN <<t[1], t[2], t[3], t[4], t[5]>> ELSE t

\* The words of the page in the standard_hours column: in its range and
\* not in the range of the activity column, which comes first
C14_StandardWords ==
    {i \in 1..Len(rows_words) : rows_words[i].x0 >= 434 /\ rows_words[i].x0 < 485}

\* C14: _parse_standard_hours gives the first 5 characters of a token of
\* length 10 or more whose first 5 characters have the form HH:MM, and
\* every other token unchanged; "08:0008:00" gives "08:00"; and the record
\* of a one-line page whose activity is not in the null category has, as
\* its standard_hours, what that gives for the last word of the column.
C14_MergedTokenSplit ==
    /\ \A i \in 1..Len(rows_words) :
          ParseStandardHours(rows_words[i].text) = C14_Split(rows_words[i].text)
    /\ ParseStandardHours(<<"0", "8", ":", "0", "0", "0", "8", ":", "0", "0">>)
          = <<"0", "8", ":", "0", "0">>
    /\ (/\ rows_pc = "returned"
        /\ Len(rows_records) = 1
        /\ \A i \in 1..Len(rows_words) : rows_words[i].top = rows_words[1].top
        /\ log_messages[1].activity_raw \notin C12_NullCategory
        /\ C14_StandardWords # {})
       => LET last == CHOOSE i \in C14_StandardWords :
                          \A j \in C14_StandardWords : j <= i
          IN  rows_records[1].standard_hours = C14_Split(rows_words[last].text)

\* A line with the merged token "08:0008:00" in the standard_hours column
C14_Witness ==
    /\ rows_pc = "returned"
    /\ Len(rows_records) = 1
    /\ \E i \in C14_StandardWords :
          rows_words[i].text = <<"0", "8", ":", "0", "0", "0", "8", ":", "0", "0">>
    /\ Cardinality(C14_StandardWords) = 1
    /\ rows_records[1].standard_hours = <<"0", "8", ":", "0", "0">>

----------------------------------------------------------------------------
(* C16 *)

\* The entries of the table whose inclusive range holds x0
C16_Holding(x0) ==
    {i \in 1..Len(rows_config) : rows_config[i].lo <= x0 /\ x0 <= rows_config[i].hi}

\* The first column, in table order, whose range holds x0
C16_FirstColumn(x0) ==
    IF C16_Holding(x0) = {} THEN NoCol
    ELSE rows_config[CHOOSE i \in C16_Holding(x0) :
                        \A j \in C16_Holding(x0) : i <= j].col

\* The words of the call that have a column
C16_Bound ==
    SelectSeq(rows_words, LAMBDA w : C16_Holding(w.x0) # {})

\* The text of the last word of the call whose first column is col, or None
C16_LastIn(col) ==
    LET at == {k \in 1..Len(rows_words) : C16_FirstColumn(rows_words[k].x0) = col}
    IN  IF at = {} THEN None
        ELSE rows_words[CHOOSE k \in at : \A j \in at : j <= k].text

\* C16: _assign_column gives the first column, in table order, whose
\* inclusive range holds the left edge of the word, and None when no range
\* holds it; the records of a call are those of the call without the words
\* that have no column, and the day_of_week of a one-line call is a word
\* whose first column is day_of_week.
C16_FixedRangeBinding ==
    /\ \A k \in 1..Len(rows_words) :
          AssignColumn(rows_words[k].x0, rows_config)
              = C16_FirstColumn(rows_words[k].x0)
    /\ rows_pc = "returned" =>
          /\ rows_records
                = ParseDataRows(C16_Bound, rows_config, rows_salary_month,
                                rows_page_num).records
          /\ (Len(rows_keys) = 1 /\ Len(rows_records) = 1) =>
                rows_records[1].day_of_week = C16_LastIn("day_of_week")

\* A call whose line holds a word in no column and a word where the date
\* and day_of_week ranges overlap, with the record it gives
C16_Witness ==
    /\ rows_pc = "returned"
    /\ Len(rows_records) = 1
    /\ \E k \in 1..Len(rows_words) : rows_words[k].x0 = 50
    /\ \E k \in 1..Len(rows_words) :
          /\ rows_words[k].x0 = 797
          /\ Cardinality(C16_Holding(797)) = 2
    /\ rows_records[1].day_of_week = None

----------------------------------------------------------------------------
(* C17 *)

\* A call on one line that has returned its one record
C17_OneLine ==
    /\ rows_pc = "returned"
    /\ Len(rows_keys) = 1
    /\ Len(rows_records) = 1
    /\ Len(log_messages) = 1

\* The positions in the line of the words whose column is col
C17_In(col) ==
    {k \in 1..Len(rows_words) : C16_FirstColumn(rows_words[k].x0) = col}

\* The positions of S from the rightmost word to the leftmost, words at one
\* left edge in the order of the line
RECURSIVE C17_RightToLeft(_)
C17_RightToLeft(S) ==
    IF S = {} THEN <<>>
    ELSE LET k == CHOOSE i \in S :
                     \A j \in S : \/ rows_words[j].x0 < rows_words[i].x0
                                  \/ rows_words[j].x0 = rows_words[i].x0 /\ i <= j
         IN  <<k>> \o C17_RightToLeft(S \ {k})

\* The texts of the words at the positions ks, with one space between two
RECURSIVE C17_Joined(_)
C17_Joined(ks) ==
    IF ks = <<>> THEN <<>>
    ELSE IF Len(ks) = 1 THEN rows_words[ks[1]].text
    ELSE rows_words[ks[1]].text \o <<" ">> \o C17_Joined(Tail(ks))

\* The record fields that hold the text of a column as it is, by column
C17_PlainColumns ==
    { <<"entry_actual", "entry_actual">>, <<"exit_actual", "exit_actual">>,
      <<"total_present", "total_present_hours">>, <<"ot_100", "ot_100">>,
      <<"shift_87", "shift_bonus_87">>, <<"deduction", "deduction">> }

\* The value the record shows for the column c[1]
C17_Shown(c) == rows_records[1][c[2]]

\* C17 as stated: the value of a column that received several words is the
\* words joined from the rightmost to the leftmost and normalized again as
\* one unit, so that no word of the column is lost.
C17_AsStated ==
    C17_OneLine =>
        /\ Cardinality(C17_In("activity")) >= 2 =>
              log_messages[1].activity_raw
                  = normalize_hebrew_word(
                        C17_Joined(C17_RightToLeft(C17_In("activity"))))
        /\ \A c \in C17_PlainColumns :
              (Cardinality(C17_In(c[1])) >= 2 /\ C17_Shown(c) # None) =>
                  C17_Shown(c)
                      = normalize_hebrew_word(
                            C17_Joined(C17_RightToLeft(C17_In(c[1]))))

\* C17: the activity of a row is the words of the activity column joined
\* from the rightmost to the leftmost with one space between two, stripped,
\* and not normalized again, so no word of the activity column is lost; any
\* other column keeps only the last of its words in the order of the line.
C17_ActivityJoin ==
    C17_OneLine =>
        /\ log_messages[1].activity_raw
              = Strip(C17_Joined(C17_RightToLeft(C17_In("activity"))))
        /\ \A c \in C17_PlainColumns :
              (C17_In(c[1]) # {} /\ C17_Shown(c) # None) =>
                  C17_Shown(c)
                      = rows_words[CHOOSE k \in C17_In(c[1]) :
                                      \A j \in C17_In(c[1]) : j <= k].text

\* A line with two words in the activity column and two in entry_actual
C17_Witness ==
    /\ C17_OneLine
    /\ log_messages[1].activity_raw = W_erev \o <<" ">> \o W_hag
    /\ Cardinality(C17_In("entry_actual")) = 2
    /\ rows_records[1].entry_actual = TimeText(7, 55)

----------------------------------------------------------------------------
(* C18 *)

\* The lines logged for the rows that gave a record, one per record
C18_RowLogs == SelectSeq(log_messages, LAMBDA m : m.kind = "row")

\* The pages of process_pdf that give their rows: data pages read without error
C18_Contributes(p) == pdf_pages[p].text.marker /\ pdf_pages[p].fails = "none"

\* The date words of a fixed-range page: a date token in the date range
C18_DateWordsOf(p) ==
    { w \in {pdf_pages[p].words[k] : k \in 1..Len(pdf_pages[p].words)} :
        RE_DATE_TOKEN(w.text) /\ 795 <= w.x0 /\ w.x0 <= 830 }

\* The vertical position on its page of the row record i was read from
C18_TopOf(i) ==
    (CHOOSE w \in C18_DateWordsOf(record_page[i]) :
        w.text = C18_RowLogs[i].date_token).top

\* The records of process_pdf are in page order and, within a page, from the
\* top row down; a page that is skipped or fails gives none
C18_FixedRangeOrder ==
    /\ Len(record_page) = Len(all_records)
    /\ Len(C18_RowLogs) = Len(all_records)
    /\ \A i \in 1..Len(all_records) :
          /\ record_page[i] \in 1..Len(pdf_pages)
          /\ C18_Contributes(record_page[i])
          /\ C18_RowLogs[i].page = record_page[i]
    /\ \A p \in 1..Len(pdf_pages) :
          C18_Contributes(p) =>
              Cardinality({i \in 1..Len(all_records) : record_page[i] = p})
                  = Cardinality({Bucket(w.top) : w \in C18_DateWordsOf(p)})
    /\ \A i, j \in 1..Len(all_records) :
          i < j =>
              /\ record_page[i] <= record_page[j]
              /\ record_page[i] = record_page[j] => C18_TopOf(i) < C18_TopOf(j)

\* The date words of a set of words from the top block down and, in a block,
\* from left to right
RECURSIVE C18_ReadingOrder(_)
C18_ReadingOrder(S) ==
    IF S = {} THEN <<>>
    ELSE LET w == CHOOSE v \in S :
                     \A u \in S : \/ v.top < u.top
                                  \/ v.top = u.top /\ v.x0 + v.x1 <= u.x0 + u.x1
         IN  <<w.text>> \o C18_ReadingOrder(S \ {w})

\* The dates of the pages that were read, page after page
RECURSIVE C18_PagesDates(_)
C18_PagesDates(pages) ==
    IF pages = <<>> THEN <<>>
    ELSE LET page == pages[Len(pages)]
             words == {page.words[k] : k \in 1..Len(page.words)}
         IN  C18_PagesDates(SubSeq(pages, 1, Len(pages) - 1))
             \o (IF page.fails THEN <<>>
                 ELSE C18_ReadingOrder({w \in words : DATE_RE(w.text)}))

\* The records of extract_attendance_data are in page order and, within a
\* page, block after block and in a block from left to right
C18_AdaptiveOrder ==
    [i \in 1..Len(rd_records) |-> rd_records[i].date] = C18_PagesDates(rd_pages)

\* C18: the records collected are the records of the pages one after the
\* other in page order, a page that is skipped or fails giving none; within a
\* page the fixed-range records go from the top row down and the adaptive
\* records go block after block and, in a block, from left to right.
C18_PageOrder ==
    /\ pdf_pc \in {"pages", "returned"} => C18_FixedRangeOrder
    /\ rd_pc \in {"pages", "returned"} => C18_AdaptiveOrder

\* A PDF whose first and third pages give records, the third from two rows
\* given bottom row first, and whose second page is skipped or fails
C18_Witness ==
    /\ pdf_pc = "returned"
    /\ record_page = <<1, 3, 3>>
    /\ ~C18_Contributes(2)
    /\ pdf_pages[3].words[1].top > pdf_pages[3].words[2].top

----------------------------------------------------------------------------
(* C19 *)

\* The salary month process_pdf starts with
C19_Sentinel == <<"0", "1", "/", "0", "1", "/", "1", "9", "0", "0">>

\* No page read so far has supplied a salary month
C19_NoSalaryMonth ==
    /\ pdf_pc \in {"pages", "returned", "raised"}
    /\ \A p \in 1..Len(pdf_pages) :
          (pdf_pages[p].text.marker /\ pdf_pages[p].fails # "extract_text")
              => pdf_pages[p].text.salary_month = <<>>

\* C19: while no page has supplied a salary month the salary month of
\* process_pdf stays at its initial value, and every record emitted has no
\* resolved date and an empty salary month: nothing in a record is derived
\* from the initial value.
C19_NoFabrication ==
    C19_NoSalaryMonth =>
        /\ current_employee.salary_month = C19_Sentinel
        /\ \A i \in 1..Len(all_records) :
              /\ all_records[i].full_date = NoDate
              /\ all_records[i].salary_month = <<>>

----------------------------------------------------------------------------
(* C20 *)

\* The employee id a record carries, None when it has no such field
C20_EmployeeId(rec) ==
    IF "employee_id" \in DOMAIN rec THEN rec.employee_id ELSE None

\* The resolved date a record carries, none when it has no such field
C20_FullDate(rec) ==
    IF "full_date" \in DOMAIN rec THEN rec.full_date ELSE NoDate

\* The entry and exit times a record carries
C20_Entry(rec) ==
    IF "entry_actual" \in DOMAIN rec THEN rec.entry_actual ELSE rec.entry

C20_Exit(rec) ==
    IF "exit_actual" \in DOMAIN rec THEN rec.exit_actual ELSE rec.exit

\* Three records with entry and exit times, the employee id of the header
\* and the dates 2024-03-01, 2024-03-02, 2024-03-03 in that order
C20_ThreeRecords(records) ==
    /\ Len(records) = 3
    /\ \A i \in 1..Len(records) :
          /\ C20_Entry(records[i]) \notin {None, <<>>}
          /\ C20_Exit(records[i]) \notin {None, <<>>}
          /\ C20_EmployeeId(records[i]) = Id_A
          /\ C20_FullDate(records[i]) = Date(2024, 3, i)

\* C20: a PDF of one page holding a header line with the salary month 03/2024
\* and a 7-digit employee id, the date row 01/03 02/03 03/03, a day-letter
\* row, an entry-time row and an exit-time row aligned to the dates gives
\* exactly three records, each with an entry and an exit time, that employee
\* id and the dates 2024-03-01, 2024-03-02, 2024-03-03 in that order.
C20_EndToEnd ==
    /\ (rd_pc = "returned" /\ rd_pages = <<ColumnReaderPage>>)
          => C20_ThreeRecords(rd_records)
    /\ (pdf_pc = "returned" /\ pdf_pages = <<ColumnPdfPage>>)
          => C20_ThreeRecords(all_records)

----------------------------------------------------------------------------
(* C23 *)

\* The columns whose record shows, for a role, the word at place i of the
\* role's row; the words of a row have different texts
C23_BoundTo(role, i) ==
    {c \in 1..Len(block_records) :
        RoleValue(role, block_records[c])
            = RoleShown(role, RoleRowWords(role)[i].text)}

\* C23: within one block and one role, no value word is bound to the records
\* of two different date columns.
C23_OneColumnPerToken ==
    blk_pc = "done" =>
        \A role \in BindingRoles :
            \A i \in RoleCandidates(role) :
                (\A j \in RoleCandidates(role) :
                    j # i => RoleRowWords(role)[j].text # RoleRowWords(role)[i].text)
                => Cardinality(C23_BoundTo(role, i)) <= 1

----------------------------------------------------------------------------
(* C24 *)

\* The step is an iteration of the page loop that logs a line of this kind
C24_Logs(kind) ==
    /\ Len(log_messages') = Len(log_messages) + 1
    /\ log_messages'[Len(log_messages')].kind = kind
    /\ page_num' = page_num + 1

\* C24: an iteration of process_pdf that ends in the except clause adds no
\* record and leaves the employee id, name, tag number and salary month
\* carried forward exactly as they were before the page.
C24_FailedPageNoEffect ==
    [][C24_Logs("error") =>
          /\ all_records' = all_records
          /\ current_employee' = current_employee]_vars

----------------------------------------------------------------------------
(* C25 *)

\* C25: an iteration of process_pdf for a page whose text lacks the data-page
\* marker adds no record and leaves every field carried forward unchanged,
\* whatever header fields the text of the page holds.
C25_SummarySkipped ==
    [][C24_Logs("summary") =>
          /\ all_records' = all_records
          /\ record_page' = record_page
          /\ current_employee' = current_employee
          /\ ~pdf_pages'[page_num'].text.marker]_vars

\* A summary page naming an employee and a salary month was skipped as the
\* first page, and nothing of it is carried forward
C25_Witness ==
    /\ Len(pdf_pages) >= 1
    /\ ~pdf_pages[1].text.marker
    /\ pdf_pages[1].text.salary_month # <<>>
    /\ pdf_pages[1].text.employee_id # <<>>
    /\ Len(log_messages) >= 1
    /\ log_messages[1].kind = "summary"
    /\ page_num = 1
    /\ current_employee.employee_id = <<>>
    /\ current_employee.salary_month = C19_Sentinel
    /\ all_records = <<>>

----------------------------------------------------------------------------
(* C30 *)

\* Two entries of the table whose ranges share a point
C30_Overlap(i, j) ==
    /\ rows_config[i].lo <= rows_config[j].hi
    /\ rows_config[j].lo <= rows_config[i].hi

\* The table with its entries in the opposite order
C30_Reversed == [k \in 1..Len(rows_config) |-> rows_config[Len(rows_config) + 1 - k]]

\* The left edges of the words of the call
C30_Edges == {rows_words[k].x0 : k \in 1..Len(rows_words)}

\* C30 as stated: the ranges of two different columns of the default table
\* share no point, so the column _assign_column gives for a left edge is the
\* same whatever the order of the entries.
C30_AsStated ==
    rows_config = DEFAULT_CONFIG =>
        /\ \A i, j \in 1..Len(rows_config) : i # j => ~C30_Overlap(i, j)
        /\ \A x0 \in C30_Edges :
              AssignColumn(x0, rows_config) = AssignColumn(x0, C30_Reversed)

\* C30: in the default table only date and day_of_week (from 795 to 800) and
\* activity and standard_hours (from 485 to 492) share points; for a left
\* edge outside those two stretches the column _assign_column gives is the
\* same whatever the order of the entries, and inside them it is the entry
\* that comes first: date and activity.
C30_TwoOverlaps ==
    rows_config = DEFAULT_CONFIG =>
        /\ \A i, j \in 1..Len(rows_config) :
              (i < j /\ C30_Overlap(i, j)) =>
                  \/ /\ rows_config[i].col = "date"
                     /\ rows_config[j].col = "day_of_week"
                     /\ rows_config[i].lo = 795 /\ rows_config[j].hi = 800
                  \/ /\ rows_config[i].col = "activity"
                     /\ rows_config[j].col = "standard_hours"
                     /\ rows_config[i].lo = 485 /\ rows_config[j].hi = 492
        /\ \A x0 \in C30_Edges :
              IF 795 <= x0 /\ x0 <= 800
              THEN /\ AssignColumn(x0, rows_config) = "date"
                   /\ AssignColumn(x0, C30_Reversed) = "day_of_week"
              ELSE IF 485 <= x0 /\ x0 <= 492
              THEN /\ AssignColumn(x0, rows_config) = "activity"
                   /\ AssignColumn(x0, C30_Reversed) = "standard_hours"
              ELSE AssignColumn(x0, rows_config) = AssignColumn(x0, C30_Reversed)

\* A line with a word in each of the two stretches and words outside them,
\* parsed into its record
C30_Witness ==
    /\ rows_pc = "returned"
    /\ Len(rows_records) = 1
    /\ 797 \in C30_Edges
    /\ 488 \in C30_Edges
    /\ 440 \in C30_Edges
    /\ rows_records[1].day_of_week = None
    /\ log_messages[1].activity_raw
          = W_ein \o <<" ">> \o W_divuah \o <<" ">> \o W_nohehut

----------------------------------------------------------------------------
(* C21 *)

\* The worker threads that have not ended
C21_Running == {w \in 1..Len(workers) : workers[w].pc # "ended"}

\* C21: while a conversion runs on its worker thread no mutable object is
\* written by the worker and read or written by the foreground loop: the
\* foreground loop does not take messages out of _log_messages, a list the
\* worker appends to, while a worker is running.
C21_NoSharedState ==
    [][Len(log_messages') < Len(log_messages) => C21_Running = {}]_vars

----------------------------------------------------------------------------
(* C22 *)

\* The callbacks the foreground loop has run for worker w
C22_Delivered(w) == {k \in 1..Len(delivered) : delivered[k].worker = w}

\* C22: a worker never ends without having posted exactly one outcome,
\* success or an error with its reason, and once every worker has ended and
\* every posted callback has run, each conversion has had exactly one outcome
\* and the button is enabled again.
C22_OneOutcome ==
    /\ \A w \in 1..Len(workers) :
          workers[w].pc = "ended" => workers[w].posted = 1
    /\ (C21_Running = {} /\ tk_events = <<>>) =>
          /\ \A w \in 1..Len(workers) : Cardinality(C22_Delivered(w)) = 1
          /\ app \in AppVariants => btn_enabled

----------------------------------------------------------------------------
(* C26 *)

\* C26: in the Document AI worker delete_from_gcs is never invoked twice, and
\* a worker that has ended has invoked it exactly once if it had chosen a
\* blob name and not at all otherwise, whichever way it ended.
C26_DeleteOnce ==
    app = "docai" =>
        \A w \in 1..Len(workers) :
            /\ workers[w].deletes <= 1
            /\ ~workers[w].named => workers[w].deletes = 0
            /\ (workers[w].pc = "ended" /\ workers[w].named) => workers[w].deletes = 1
            /\ (workers[w].named /\ workers[w].blob_name = "None")
                  => workers[w].deletes = 1

\* Two Document AI workers have ended, the first with a success after its
\* blob was deleted in step 5, the second with an error after which the
\* finally clause deleted its blob
C26_Witness ==
    /\ app = "docai"
    /\ Len(workers) = 2
    /\ C21_Running = {}
    /\ workers[1].deletes = 1 /\ workers[2].deletes = 1
    /\ workers[1].blob_name = "None" /\ workers[2].blob_name = "blob"
    /\ Len(delivered) = 2
    /\ delivered[1].kind = "success" /\ delivered[2].kind = "error"

----------------------------------------------------------------------------
(* C27 *)

\* C27: at most one conversion worker is running at any time, and the button
\* is enabled only when no worker is running.
C27_OneWorker ==
    /\ Cardinality(C21_Running) <= 1
    /\ btn_enabled => C21_Running = {}

----------------------------------------------------------------------------
(* C28 *)

\* The lines of the log box that are messages of the workers
C28_Shown == SelectSeq(log_box, LAMBDA m : m.kind = "log")

\* C28: every message a worker has logged is in the log box or still waiting
\* in _log_messages, once and in the order it was logged, so that no message
\* is lost, also when an export is started right after the one before.
C28_NoLogLost == C28_Shown \o log_messages = logged

----------------------------------------------------------------------------
(* C29 *)

\* C29: at most one _poll_logs timer is pending at any time.
C29_OnePollChain == poll_timers <= 1

----------------------------------------------------------------------------
(* Specifications: one per part of the program, the other parts idle *)

NoLog == log_messages = <<>>

StartPage == InitPage /\ IdleDate /\ IdleRows /\ IdlePdf /\ NoLog /\ IdleGroup /\ IdleBlock /\ IdleReader /\ IdleNorm /\ IdleApp

SpecPage == StartPage /\ [][NextPage]_vars

StartDate == InitDate /\ IdlePage /\ IdleRows /\ IdlePdf /\ NoLog /\ IdleGroup /\ IdleBlock /\ IdleReader /\ IdleNorm /\ IdleApp

SpecDate == StartDate /\ [][NextDate]_vars

StartRows == InitRows /\ IdlePage /\ IdleDate /\ IdlePdf /\ IdleGroup /\ IdleBlock /\ IdleReader /\ IdleNorm /\ IdleApp

SpecRows == StartRows /\ [][NextRows]_vars

StartPdf == InitPdf /\ IdlePage /\ IdleDate /\ IdleRows /\ IdleGroup /\ IdleBlock /\ IdleReader /\ IdleNorm /\ IdleApp

SpecPdf == StartPdf /\ [][NextPdf]_vars

StartGroup == InitGroup /\ IdlePage /\ IdleDate /\ IdleRows /\ IdlePdf /\ NoLog /\ IdleBlock /\ IdleReader /\ IdleNorm /\ IdleApp

SpecGroup == StartGroup /\ [][NextGroup]_vars

StartBlock == InitBlock /\ IdlePage /\ IdleDate /\ IdleRows /\ IdlePdf /\ IdleGroup /\ NoLog /\ IdleReader /\ IdleNorm /\ IdleApp

SpecBlock == StartBlock /\ [][NextBlock]_vars

StartReader ==
    InitReader /\ IdlePage /\ IdleDate /\ IdleRows /\ IdlePdf /\ IdleGroup /\ IdleBlock
        /\ IdleNorm /\ IdleApp /\ NoLog

SpecReader == StartReader /\ [][NextReader]_vars

StartNorm ==
    InitNorm /\ IdlePage /\ IdleDate /\ IdleRows /\ IdlePdf /\ IdleGroup /\ IdleBlock
        /\ IdleReader /\ IdleApp /\ NoLog

SpecNorm == StartNorm /\ [][NextNorm]_vars

StartApp ==
    InitApp /\ IdlePage /\ IdleDate /\ IdleRows /\ IdlePdf /\ IdleGroup /\ IdleBlock
        /\ IdleReader /\ IdleNorm

SpecApp == StartApp /\ [][NextApp]_vars

\* Either reader collecting the records of a PDF
StartRecords == StartPdf \/ StartReader

NextRecords == NextPdf \/ NextReader

SpecRecords == StartRecords /\ [][NextRecords]_vars

====
